---- MODULE Spec2Model ----
(***************************************************************************)
(* Model of the image-generation proxy: the request handlers of every      *)
(* revision kept in the repository (main.ts holds two, part_001..part_006  *)
(* hold nine more), their callOpenRouter variants and the chunk sequences  *)
(* they write on the response stream.                                      *)
(*                                                                         *)
(* JavaScript strings that the code inspects character by character        *)
(* (header values, data URLs, upstream content) are sequences of           *)
(* one-character strings.  Template-built messages are sequences of        *)
(* segments.  null/undefined is None, a present value v is Some(v).        *)
(***************************************************************************)
EXTENDS Integers, Sequences, FiniteSets, TLC

VARIABLES
    rev,            \* the revision deployed
    env,            \* Deno.env OPENROUTER_API_KEY
    pc,             \* "idle", "fetching" (awaiting fetch), "streaming", "done"
    req,            \* the inbound request being served
    upstreamCalls,  \* the fetches issued to the upstream, in order
    reply,          \* the upstream's answer to the fetch
    result,         \* what callOpenRouter returned or threw
    response,       \* the Response returned to the caller
    controller,     \* the ReadableStream controller: queue, closed, fault
    timers,         \* pending setTimeout callbacks, soonest first
    inflight,       \* two requests the one process serves at the same time
    page            \* the companion page: its button, result area and handlers

vars == <<rev, env, pc, req, upstreamCalls, reply, result, response,
          controller, timers, inflight, page>>

---------------------------------------------------------------------------
(* Optional values *)

None == <<>>

Some(v) == <<v>>

IsSome(o) == o # <<>>

Get(o) == o[1]

---------------------------------------------------------------------------
(* Bounds of the model *)

\* turns in a generated conversation
MaxTurns == 2

\* characters of a plain-text upstream reply
MaxTextLen == 2

---------------------------------------------------------------------------
(* String literals of the source, as character sequences *)

BearerPrefix == <<"B","e","a","r","e","r"," ">>

DataImagePrefix == <<"d","a","t","a",":","i","m","a","g","e","/">>

DataPrefix == <<"d","a","t","a",":">>

Base64Marker == <<";","b","a","s","e","6","4",",">>

LineTerminators == {"\n", "\r"}

\* the 17 characters of the intro sentence, one element per character
IntroText == <<"hao","de","comma","zhe","shi","gen","ju","nin","de","miao",
               "shu","sheng","cheng","de","tu","pian","colon">>

---------------------------------------------------------------------------
(* String primitives of JavaScript used by the handlers *)

\* s.startsWith(p)
StartsWith(s, p) == Len(s) >= Len(p) /\ SubSeq(s, 1, Len(p)) = p

\* s.substring(n)
Substring(s, n) == SubSeq(s, n + 1, Len(s))

\* 1-based position of the first occurrence of p in s, 0 when there is none
IndexOf(s, p) ==
    LET hits == { i \in 1..(Len(s) - Len(p) + 1) : SubSeq(s, i, i + Len(p) - 1) = p }
    IN IF hits = {} THEN 0 ELSE CHOOSE i \in hits : \A j \in hits : i <= j

\* s.replace(p, r) with a string pattern: the first occurrence only
ReplaceFirst(s, p, r) ==
    LET i == IndexOf(s, p)
    IN IF i = 0 THEN s
       ELSE SubSeq(s, 1, i - 1) \o r \o SubSeq(s, i + Len(p), Len(s))

\* s.split(',')[1]: the piece between the first and the second comma,
\* undefined when s holds no comma
SplitComma1(s) ==
    LET i == IndexOf(s, <<",">>)
    IN IF i = 0 THEN None
       ELSE LET rest == SubSeq(s, i + 1, Len(s))
                j == IndexOf(rest, <<",">>)
            IN Some(IF j = 0 THEN rest ELSE SubSeq(rest, 1, j - 1))

NoLineTerminator(s) == \A i \in 1..Len(s) : s[i] \notin LineTerminators

\* a faulty match whose first group starts one character early, at the
\* colon of "data:"
MatchDataUrl_FromColon(s) ==
    LET cands == { i \in 7..(Len(s) - Len(Base64Marker) + 1) :
                     SubSeq(s, i, i + Len(Base64Marker) - 1) = Base64Marker }
    IN IF ~StartsWith(s, DataPrefix) \/ cands = {} THEN None
       ELSE LET i == CHOOSE c \in cands : \A d \in cands : d <= c
            IN Some(<<SubSeq(s, 5, i - 1), SubSeq(s, i + Len(Base64Marker), Len(s))>>)

\* s.match(/^data:(.+);base64,(.*)$/): None, or Some(<<group 1, group 2>>).
\* (.+) is greedy, so group 1 runs to the last ";base64," that lets the rest
\* match; "." matches no line terminator.
MatchDataUrl(s) ==
    LET cands == { i \in 7..(Len(s) - Len(Base64Marker) + 1) :
                     /\ SubSeq(s, i, i + Len(Base64Marker) - 1) = Base64Marker
                     /\ NoLineTerminator(SubSeq(s, 6, i - 1))
                     /\ NoLineTerminator(SubSeq(s, i + Len(Base64Marker), Len(s))) }
    IN IF ~StartsWith(s, DataPrefix) \/ cands = {} THEN None
       ELSE LET i == CHOOSE c \in cands : \A d \in cands : d <= c
            IN Some(<<SubSeq(s, 6, i - 1), SubSeq(s, i + Len(Base64Marker), Len(s))>>)

\* `data:${mimeType};base64,${data}`
DataUrl(mimeType, data) == DataPrefix \o mimeType \o Base64Marker \o data

---------------------------------------------------------------------------
(* Revisions of the server and their routes *)

Revisions == {"main_a", "main_b", "part_001", "part_002_a", "part_002_b",
              "part_002_c", "part_003", "part_004", "part_005_a",
              "part_005_b", "part_006"}

Endpoints == {"chat", "generate", "gemini_stream", "gemini_generate"}

\* the `if (pathname ...)` routes each revision implements
Routes(r) ==
    CASE r = "main_a"     -> {"gemini_stream"}
      [] r = "main_b"     -> {"chat", "generate"}
      [] r = "part_001"   -> {"gemini_generate"}
      [] r = "part_002_a" -> {"gemini_stream", "gemini_generate"}
      [] r = "part_002_b" -> {"gemini_stream"}
      [] r = "part_002_c" -> {"gemini_stream"}
      [] r = "part_003"   -> {"chat", "generate"}
      [] r = "part_004"   -> {"chat", "generate"}
      [] r = "part_005_a" -> {"chat"}
      [] r = "part_005_b" -> {"chat", "generate"}
      [] r = "part_006"   -> {"gemini_stream"}

\* which callOpenRouter a revision defines:
\*  "A"  main.ts:16      content first, no key check, upstream statusText
\*  "B"  main.ts:163     content first, image-count annotation, statusText
\*  "C"  part_006:15     content first, key check, fixed "Unauthorized"
\*  "D"  part_002:16     images first, text result, key check, "Unauthorized"
CallStyle(r) ==
    CASE r = "main_a" -> "A"
      [] r \in {"main_b", "part_003", "part_004", "part_005_a", "part_005_b"} -> "B"
      [] r \in {"part_001", "part_002_b", "part_002_c", "part_006"} -> "C"
      [] r = "part_002_a" -> "D"

---------------------------------------------------------------------------
(* Input values *)

\* what a handler reads of the inbound request: the route, the two
\* credential headers and, from the JSON body, the conversation (or the
\* /generate fields) and the model name; parsed tells whether `await
\* req.json()` resolves
InboundRequest(e, a, g, b, md) ==
    [endpoint |-> e, auth |-> a, xgoog |-> g, body |-> b, model |-> md,
     parsed |-> TRUE]

Key1 == <<"s","k","-","1">>

\* a key sent without the Bearer prefix
RawKey == <<"A","I","z","a","S","y","K","E","Y">>

GoogKey == <<"g","k","-","2">>

BodyKey == <<"b","k","-","3">>

EnvKey == <<"e","k","-","4">>

AuthValues == { None, Some(BearerPrefix \o Key1), Some(RawKey),
                Some(<<"T","o","k"," ">> \o BearerPrefix \o Key1) }

GoogValues == { None, Some(GoogKey) }

Png == <<"i","m","a","g","e","/","p","n","g">>

Jpeg == <<"i","m","a","g","e","/","j","p","e","g">>

Zm9v == <<"Z","m","9","v">>

QUJD == <<"Q","U","J","D">>

HttpsUrl == <<"h","t","t","p","s",":","/","/","x","/","a",".","p","n","g">>

PromptA == <<"A">>

PromptB == <<"B">>

PromptC == <<"C">>

\* Gemini parts
TextPart(t) == [text |-> Some(t), inlineData |-> None]

InlinePart(m, d) == [text |-> None, inlineData |-> Some([mimeType |-> m, data |-> d])]

BarePart == [text |-> None, inlineData |-> None]

GeminiTurn(role, parts) == [role |-> role, parts |-> Some(parts)]

GeminiCoreTurns ==
    { GeminiTurn("user", <<TextPart(PromptA), InlinePart(Png, Zm9v)>>),
      GeminiTurn("user", <<TextPart(PromptC), InlinePart(Jpeg, QUJD), BarePart,
                           TextPart(PromptB), InlinePart(Png, Zm9v)>>),
      GeminiTurn("model", <<TextPart(PromptC)>>) }

GeminiEdgeTurns ==
    { GeminiTurn("user", <<InlinePart(Png, Zm9v)>>),
      GeminiTurn("user", <<TextPart(<<>>), InlinePart(Png, <<>>)>>),
      GeminiTurn("user", <<TextPart(PromptA), TextPart(<<>>), InlinePart(Png, Zm9v)>>),
      [role |-> "user", parts |-> None] }

\* sequences over S of length 0..n
SeqUpTo(S, n) == UNION { [1..k -> S] : k \in 0..n }

\* geminiRequest.contents: absent, or an array of turns
GeminiBodies ==
    { None } \cup { Some(c) : c \in SeqUpTo(GeminiCoreTurns, MaxTurns) }
             \cup { Some(<<t>>) : t \in GeminiEdgeTurns }

\* OpenAI content parts
OTextPart(t) == [type |-> "text", text |-> t, url |-> None]

OImagePart(u) == [type |-> "image_url", text |-> <<>>, url |-> u]

\* message.content: absent, a string, or an array of parts
OString(s) == [kind |-> "string", str |-> s, parts |-> <<>>]

OArray(ps) == [kind |-> "array", str |-> <<>>, parts |-> ps]

OAbsent == [kind |-> "none", str |-> <<>>, parts |-> <<>>]

OTurn(role, content) == [role |-> role, content |-> content]

OpenAICoreTurns ==
    { OTurn("user", OString(PromptA)),
      OTurn("user", OArray(<<OTextPart(PromptC), OImagePart(Some(DataUrl(Png, Zm9v))),
                             OImagePart(None), OTextPart(PromptB),
                             OImagePart(Some(HttpsUrl))>>)),
      OTurn("assistant", OString(PromptC)) }

OpenAIEdgeTurns ==
    { OTurn("user", OArray(<<OImagePart(Some(DataUrl(Jpeg, QUJD)))>>)),
      OTurn("user", OArray(<<OTextPart(PromptA), OImagePart(Some(DataUrl(Jpeg, QUJD)))>>)),
      OTurn("user", OString(<<>>)),
      OTurn("user", OAbsent) }

\* openaiRequest.messages
OpenAIBodies ==
    { None } \cup { Some(c) : c \in SeqUpTo(OpenAICoreTurns, MaxTurns) }
             \cup { Some(<<t>>) : t \in OpenAIEdgeTurns }

\* the body of /generate: { prompt, images, apikey }
GenerateBodies ==
    [ prompt : {None, Some(<<>>), Some(PromptA)},
      images : {None, Some(<<>>), Some(<<DataUrl(Png, Zm9v)>>),
                Some(<<DataUrl(Png, Zm9v), DataUrl(Jpeg, QUJD)>>)},
      apikey : {None, Some(BodyKey)} ]

BodiesOf(e) ==
    CASE e = "chat" -> OpenAIBodies
      [] e = "generate" -> GenerateBodies
      [] OTHER -> GeminiBodies

\* openaiRequest.model: absent, or a model name
CustomModel == "my-model"

ModelValues == { None, Some(CustomModel) }

\* main.ts:225  openaiRequest.model || 'gpt-4o'
DefaultModel == "gpt-4o"

\* a faulty default that leaves the model name empty when the caller named
\* none
RequestedModel_NoDefault(model) == IF IsSome(model) THEN Get(model) ELSE ""

RequestedModel(model) ==
    IF IsSome(model) /\ Get(model) # "" THEN Get(model) ELSE DefaultModel

\* the values crypto.randomUUID() and Math.floor(Date.now() / 1000) can give
Uuids == { "uuid-1", "uuid-2" }

Clock == { 1700000000, 1700000001 }

\* Deno.env.get("OPENROUTER_API_KEY")
EnvValues == { None, Some(EnvKey) }

\* what the upstream can answer
ReplyText == <<"h","i","!">>

ReplyContents ==
    { None, Some(<<>>), Some(DataUrl(Png, Zm9v)),
      Some(DataImagePrefix \o <<"p","n","g",",">> \o Zm9v),
      Some(DataImagePrefix \o <<"p","n","g">>) }
    \cup { Some(SubSeq(ReplyText, 1, k)) : k \in 1..MaxTextLen }

ReplyImages == { <<>>, <<DataUrl(Jpeg, QUJD)>>, <<HttpsUrl>> }

FailureReplies ==
    { [ok |-> FALSE, statusText |-> "Unauthorized", body |-> "denied", message |-> None],
      [ok |-> FALSE, statusText |-> "Internal Server Error", body |-> "oops",
       message |-> None] }

SuccessReplies ==
    { [ok |-> TRUE, statusText |-> "OK", body |-> "", message |-> None] }
    \cup { [ok |-> TRUE, statusText |-> "OK", body |-> "",
            message |-> Some([content |-> c, images |-> i])] :
           c \in ReplyContents, i \in ReplyImages }

Replies == FailureReplies \cup SuccessReplies

---------------------------------------------------------------------------
(* Credentials *)

\* a JavaScript string is truthy when it is not empty
Truthy(o) == IsSome(o) /\ Get(o) # <<>>

OrEmpty(o) == IF Truthy(o) THEN Get(o) ELSE <<>>

\* main.ts:56-57  authHeader?.substring(7) || x-goog-api-key || ""
ApiKeySubstring(auth, xgoog) ==
    LET a == IF IsSome(auth) THEN Substring(Get(auth), 7) ELSE <<>>
    IN IF a # <<>> THEN a ELSE OrEmpty(xgoog)

\* part_006:55-58  strip a leading "Bearer ", else the header as it is;
\* x-goog-api-key when there is no Authorization header
ApiKeyStrip(auth, xgoog) ==
    IF Truthy(auth)
    THEN IF StartsWith(Get(auth), BearerPrefix) THEN Substring(Get(auth), 7)
         ELSE Get(auth)
    ELSE OrEmpty(xgoog)

\* part_002:65  Authorization?.replace("Bearer ", "") || x-goog-api-key || ""
ApiKeyReplace(auth, xgoog) ==
    LET a == IF IsSome(auth) THEN ReplaceFirst(Get(auth), BearerPrefix, <<>>) ELSE <<>>
    IN IF a # <<>> THEN a ELSE OrEmpty(xgoog)

\* the key a Gemini handler derives from the headers
GeminiApiKey(r, auth, xgoog) ==
    CASE r = "main_a" -> ApiKeySubstring(auth, xgoog)
      [] r = "part_002_a" -> ApiKeyReplace(auth, xgoog)
      [] OTHER -> ApiKeyStrip(auth, xgoog)

\* main.ts:57-70 has no `if (!apiKey)` check; the later Gemini handlers do
GeminiChecksKey(r) == r # "main_a"

\* main.ts:221-223  the chat handler: None stands for the 401 return
ChatApiKey(auth) ==
    IF ~IsSome(auth) \/ Get(auth) = <<>> \/ ~StartsWith(Get(auth), BearerPrefix)
    THEN None
    ELSE Some(Substring(Get(auth), 7))

\* a faulty key choice that prefers the environment key to the body's apikey
GenerateApiKey_EnvFirst(apikey, e) ==
    IF Truthy(e) THEN Get(e) ELSE OrEmpty(apikey)

\* main.ts:316  apikey || Deno.env.get("OPENROUTER_API_KEY")
GenerateApiKey(apikey, e) ==
    IF Truthy(apikey) THEN Get(apikey) ELSE OrEmpty(e)

---------------------------------------------------------------------------
(* Request normalisation *)

\* index of the element Array.prototype.find returns, 0 when there is none
FindUser(turns) ==
    LET us == { i \in 1..Len(turns) : turns[i].role = "user" }
    IN IF us = {} THEN 0 ELSE CHOOSE i \in us : \A j \in us : i <= j

HasText(p) == Truthy(p.text)

HasInlineData(p) == IsSome(p.inlineData) /\ Get(p.inlineData).data # <<>>

InlineUrl(p) == DataUrl(Get(p.inlineData).mimeType, Get(p.inlineData).data)

\* a faulty extraction that joins the texts of all parts
GeminiPrompt_Concatenated(parts) ==
    LET texts == SelectSeq(parts, HasText)
        RECURSIVE Join(_)
        Join(k) == IF k = 0 THEN <<>> ELSE Join(k - 1) \o Get(texts[k].text)
    IN Join(Len(texts))

\* part_006:63-69  `if (part.text) { prompt = part.text; }`: the last truthy text
GeminiPrompt(parts) ==
    LET texts == SelectSeq(parts, HasText)
    IN IF texts = <<>> THEN <<>> ELSE Get(texts[Len(texts)].text)

\* part_006:66-68  one data URL per part that carries inlineData.data
GeminiImages(parts) ==
    LET withData == SelectSeq(parts, HasInlineData)
    IN [i \in 1..Len(withData) |-> InlineUrl(withData[i])]

IsTextPart(p) == p.type = "text"

IsImagePart(p) == p.type = "image_url" /\ Truthy(p.url)

\* main.ts:227-233  prompt and images of the chosen user message
ChatPrompt(content) ==
    IF content.kind = "array"
    THEN LET texts == SelectSeq(content.parts, IsTextPart)
         IN IF texts = <<>> THEN <<>> ELSE texts[Len(texts)].text
    ELSE content.str

ChatImages(content) ==
    IF content.kind = "array"
    THEN LET imgs == SelectSeq(content.parts, IsImagePart)
         IN [i \in 1..Len(imgs) |-> Get(imgs[i].url)]
    ELSE <<>>

\* `!userMessage.content`: absent, or the empty string
ContentFalsy(content) ==
    content.kind = "none" \/ (content.kind = "string" /\ content.str = <<>>)

---------------------------------------------------------------------------
(* The payload callOpenRouter sends *)

ModelId == "google/gemini-2.5-flash-image-preview:free"

\* a text item; prefix Some(n) is the image-count annotation in front of it
TextItem(prefix, t) == [type |-> "text", prefix |-> prefix, text |-> t, url |-> <<>>]

ImageItem(u) == [type |-> "image_url", prefix |-> None, text |-> <<>>, url |-> u]

ImageItems(images) == [i \in 1..Len(images) |-> ImageItem(images[i])]

\* main.ts:17-24  one user message: the prompt, then the images
PlainPayload(prompt, images) ==
    [model |-> ModelId, stream |-> None,
     messages |-> << [role |-> "user",
                      content |-> <<TextItem(None, prompt)>> \o ImageItems(images)] >>]

\* main.ts:164-177  as above, the prompt annotated with images.length when
\* there are images and the prompt is not empty
AnnotatedPayload(prompt, images) ==
    [model |-> ModelId, stream |-> Some(FALSE),
     messages |-> << [role |-> "user",
                      content |->
                        <<TextItem(IF Len(images) > 0 /\ prompt # <<>>
                                   THEN Some(Len(images)) ELSE None, prompt)>>
                        \o ImageItems(images)] >>]

\* part_002:72-75  the items of one Gemini part
PartItems(p) ==
    (IF HasText(p) THEN <<TextItem(None, Get(p.text))>> ELSE <<>>)
    \o (IF HasInlineData(p) THEN <<ImageItem(InlineUrl(p))>> ELSE <<>>)

RECURSIVE ConcatItems(_)
ConcatItems(parts) ==
    IF parts = <<>> THEN <<>>
    ELSE PartItems(Head(parts)) \o ConcatItems(Tail(parts))

\* a faulty mapping that sends every turn with role user
HistoryPayload_AllUser(contents) ==
    [model |-> ModelId, stream |-> None,
     messages |-> [i \in 1..Len(contents) |->
                     [role |-> "user",
                      content |-> ConcatItems(Get(contents[i].parts))]]]

\* part_002:70-77  every turn of the conversation, in order
HistoryPayload(contents) ==
    [model |-> ModelId, stream |-> None,
     messages |-> [i \in 1..Len(contents) |->
                     [role |-> IF contents[i].role = "model" THEN "assistant" ELSE "user",
                      content |-> ConcatItems(Get(contents[i].parts))]]]

\* the fetch: Authorization: `Bearer ${apiKey}` and the JSON body
Fetch(apiKey, payload) == [authorization |-> BearerPrefix \o apiKey, payload |-> payload]

---------------------------------------------------------------------------
(* Responses *)

\* error messages, as the segments their template literals join
MsgApiKeyMissing == <<"API key is missing.">>

MsgNoUserParts == <<"Invalid Gemini request: No user parts found">>

MsgNoContents == <<"Invalid Gemini request: 'contents' array is missing or empty">>

MsgNotIterable == <<"geminiMsg.parts is not iterable">>

MsgAuthInvalid == <<"Authorization header is missing or invalid.">>

\* the message of the SyntaxError req.json() rejects with
MsgNotJson == <<"Unexpected token is not valid JSON">>

MsgNoUserMessage == <<"Invalid request: No user message found.">>

MsgPromptMissing == <<"Invalid request: Prompt text is missing.">>

MsgKeyNotSet == <<"OpenRouter API key is not set.">>

MsgPromptImagesRequired == <<"Prompt and images are required.">>

MsgEmptyApiKey == <<"callOpenRouter received an empty apiKey.">>

MsgNoMessage == <<"Invalid response from OpenRouter: No 'message' object.">>

MsgNoImage == <<"Could not extract a valid image URL from the OpenRouter API response.">>

MsgNoContent ==
    <<"Could not extract a valid image OR text content from the OpenRouter API response.">>

MsgNotBase64 == <<"Generated content is not a valid Base64 URL">>

\* main.ts:32  `OpenRouter API error: ${apiResponse.statusText} - ${errorBody}`
MsgUpstreamStatus(rp) == <<"OpenRouter API error: ", rp.statusText, " - ", rp.body>>

\* part_006:32  `OpenRouter API error: Unauthorized - ${errorBody}`
MsgUpstreamFixed(rp) == <<"OpenRouter API error: ", "Unauthorized", " - ", rp.body>>

\* the wire shape of the handler that serves endpoint e
ShapeOf(e) ==
    CASE e = "chat" -> "openai"
      [] e = "generate" -> "generate"
      [] OTHER -> "gemini"

\* createJsonErrorResponse / createOpenAIErrorResponse / the inline
\* `new Response(JSON.stringify({ error }), { status })` of /generate
ErrorResponse(e, message, statusCode) ==
    [kind |-> "error", shape |-> ShapeOf(e), status |-> statusCode,
     message |-> message, parts |-> <<>>]

\* one part of a JSON document, or one chunk of a stream.
\* frame: "json" inside a document; on a stream "jsonl" is `${json}\n`,
\* "data_nl" is `data: ${json}\n`, "sse" is `data: ${json}\n\n`
Piece(frame, t, text, mimeType, data) ==
    [frame |-> frame, t |-> t, text |-> text, mimeType |-> mimeType, data |-> data,
     meta |-> None]

\* what start() draws once per response and every stamped chunk repeats:
\* crypto.randomUUID(), Math.floor(Date.now() / 1000), and the model name
\* the caller asked for
Ctx(uuid, created, requestedModel) ==
    [uuid |-> uuid, created |-> created, requestedModel |-> requestedModel]

\* a chunk with id `${prefix}${uuid}` and created, and with model when the
\* chunk has that field
Stamped(p, prefix, ctx, withModel) ==
    [p EXCEPT !.meta = Some([id |-> <<prefix, ctx.uuid>>,
                              created |-> ctx.created,
                              model |-> IF withModel THEN Some(ctx.requestedModel)
                                        ELSE None])]

TextPiece(frame, text) == Piece(frame, "text", text, <<>>, None)

\* a faulty inlineData part with the two groups of the match exchanged
InlinePiece_Exchanged(frame, m) == Piece(frame, "inlineData", <<>>, m[2], Some(m[1]))

InlinePiece(frame, m) == Piece(frame, "inlineData", <<>>, m[1], Some(m[2]))

FinishPiece(frame) == Piece(frame, "finish", <<>>, <<>>, None)

\* `data: [DONE]\n\n`
DonePiece == Piece("sse", "done", <<>>, <<>>, None)

JsonResponse(e, parts) ==
    [kind |-> "json", shape |-> ShapeOf(e), status |-> 200, message |-> <<>>,
     parts |-> parts]

StreamResponse(e) ==
    [kind |-> "stream", shape |-> ShapeOf(e), status |-> 200, message |-> <<>>,
     parts |-> <<>>]

---------------------------------------------------------------------------
(* callOpenRouter after the fetch has returned *)

Returned(type, content) ==
    [thrown |-> FALSE, type |-> type, content |-> content, message |-> <<>>]

Thrown(message) ==
    [thrown |-> TRUE, type |-> "none", content |-> <<>>, message |-> message]

\* message.content when it is a string, None otherwise
ContentOf(rp) ==
    IF IsSome(rp.message) THEN Get(rp.message).content ELSE None

\* message.images[0].image_url.url when it is truthy, None otherwise
FirstImageOf(rp) ==
    IF IsSome(rp.message) /\ Len(Get(rp.message).images) > 0
                          /\ Get(rp.message).images[1] # <<>>
    THEN Some(Get(rp.message).images[1])
    ELSE None

\* a faulty extraction that looks at images[0] alone and never at the content
ExtractContentFirst_ImagesOnly(rp) ==
    IF IsSome(FirstImageOf(rp))
    THEN Returned("image", Get(FirstImageOf(rp)))
    ELSE Thrown(MsgNoImage)

\* main.ts:37-41  content that is a data:image/ URL first, then images[0]
ExtractContentFirst(rp) ==
    IF IsSome(ContentOf(rp)) /\ StartsWith(Get(ContentOf(rp)), DataImagePrefix)
    THEN Returned("image", Get(ContentOf(rp)))
    ELSE IF IsSome(FirstImageOf(rp))
         THEN Returned("image", Get(FirstImageOf(rp)))
         ELSE Thrown(MsgNoImage)

\* a faulty extraction that prefers a data:image/ content to images[0]
ExtractImagesFirst_ContentPreferred(rp) ==
    IF IsSome(ContentOf(rp)) /\ StartsWith(Get(ContentOf(rp)), DataImagePrefix)
    THEN Returned("image", Get(ContentOf(rp)))
    ELSE IF IsSome(FirstImageOf(rp))
         THEN Returned("image", Get(FirstImageOf(rp)))
         ELSE IF IsSome(ContentOf(rp))
              THEN Returned("text", Get(ContentOf(rp)))
              ELSE Thrown(MsgNoContent)

\* a faulty extraction that takes a missing content for the empty text
ExtractImagesFirst_NullAsText(rp) ==
    IF IsSome(FirstImageOf(rp))
    THEN Returned("image", Get(FirstImageOf(rp)))
    ELSE IF IsSome(ContentOf(rp)) /\ StartsWith(Get(ContentOf(rp)), DataImagePrefix)
         THEN Returned("image", Get(ContentOf(rp)))
         ELSE IF IsSome(ContentOf(rp))
              THEN Returned("text", Get(ContentOf(rp)))
              ELSE Returned("text", <<>>)

\* part_002:36-53  images[0] first, then a data:image/ content, then text
ExtractImagesFirst(rp) ==
    IF IsSome(FirstImageOf(rp))
    THEN Returned("image", Get(FirstImageOf(rp)))
    ELSE IF IsSome(ContentOf(rp)) /\ StartsWith(Get(ContentOf(rp)), DataImagePrefix)
         THEN Returned("image", Get(ContentOf(rp)))
         ELSE IF IsSome(ContentOf(rp))
              THEN Returned("text", Get(ContentOf(rp)))
              ELSE Thrown(MsgNoContent)

\* the message thrown for a reply with `!apiResponse.ok`
UpstreamErrorMessage(style, rp) ==
    IF style \in {"A", "B"} THEN MsgUpstreamStatus(rp) ELSE MsgUpstreamFixed(rp)

\* callOpenRouter from `if (!apiResponse.ok)` to its return
callOpenRouter(style, rp) ==
    IF ~rp.ok THEN Thrown(UpstreamErrorMessage(style, rp))
    ELSE IF style = "B" /\ ~IsSome(rp.message) THEN Thrown(MsgNoMessage)
    ELSE IF style = "D" THEN ExtractImagesFirst(rp)
    ELSE ExtractContentFirst(rp)

---------------------------------------------------------------------------
(* The stream controller and the callbacks that write on it *)

NewController == [queue |-> <<>>, closed |-> FALSE, fault |-> FALSE]

Enq(chunk) == [op |-> "enqueue", chunk |-> chunk]

Close == [op |-> "close", chunk |-> DonePiece]

\* controller.enqueue(x) / controller.close() on an open controller
Apply(c, o) ==
    IF o.op = "enqueue" THEN [c EXCEPT !.queue = Append(@, o.chunk)]
    ELSE [c EXCEPT !.closed = TRUE]

\* one callback: its writes in order; enqueue and close throw a TypeError on
\* a closed controller, which ends the callback
RECURSIVE RunOps(_, _)
RunOps(c, ops) ==
    IF ops = <<>> THEN c
    ELSE IF c.closed THEN [c EXCEPT !.fault = TRUE]
    ELSE RunOps(Apply(c, Head(ops)), Tail(ops))

\* a stream's writes: those start() makes before it returns or first awaits,
\* then one callback per timer
Plan(sync, later) == [sync |-> sync, later |-> later]

Tick(delay, ops) == [delay |-> delay, ops |-> ops]

\* a faulty loop that writes two characters per chunk where it can
CharPlan_TwoAtATime(chars, frame, delay, tail) ==
    IF Len(chars) < 2 THEN Plan(tail, <<>>)
    ELSE Plan(<<Enq(TextPiece(frame, SubSeq(chars, 1, 2)))>>,
              <<Tick(delay, <<Enq(TextPiece(frame, SubSeq(chars, 3, Len(chars))))>> \o tail)>>)

\* `for (const char of text.split('')) { sendChunk(char); await delay }`
\* followed by tail: the first character is written at once, every later
\* one and the tail after the previous await has timed out
CharPlan(chars, frame, delay, tail) ==
    IF chars = <<>> THEN Plan(tail, <<>>)
    ELSE Plan(<<Enq(TextPiece(frame, <<chars[1]>>))>>,
              [i \in 1..Len(chars) |->
                 IF i < Len(chars)
                 THEN Tick(delay, <<Enq(TextPiece(frame, <<chars[i + 1]>>))>>)
                 ELSE Tick(delay, tail)])

\* main.ts:78-126
PlanMainA(m) ==
    Plan(<<Enq(InlinePiece("jsonl", m)), Enq(FinishPiece("jsonl")), Close>>, <<>>)

\* a faulty stream whose setTimeout callback returns without closing
PlanPart002B_NeverCloses(m) ==
    Plan(<<Enq(TextPiece("jsonl", IntroText))>>,
         <<Tick(50, <<Enq(InlinePiece("jsonl", m)), Enq(FinishPiece("jsonl"))>>)>>)

\* part_002:233-288
PlanPart002B(m) ==
    Plan(<<Enq(TextPiece("jsonl", IntroText))>>,
         <<Tick(50, <<Enq(InlinePiece("jsonl", m)), Enq(FinishPiece("jsonl")), Close>>)>>)

\* part_002:377-429
PlanPart002C(m) ==
    CharPlan(IntroText, "data_nl", 5,
             <<Enq(InlinePiece("data_nl", m)), Enq(FinishPiece("data_nl")), Close>>)

\* a faulty stream that closes its controller before writing the sentinel
PlanPart006_CloseBeforeDone(m) ==
    CharPlan(IntroText, "sse", 10,
             <<Enq(InlinePiece("sse", m)), Enq(FinishPiece("sse")), Close, Enq(DonePiece)>>)

\* part_006:77-129
PlanPart006(m) ==
    CharPlan(IntroText, "sse", 10,
             <<Enq(InlinePiece("sse", m)), Enq(FinishPiece("sse")), Enq(DonePiece), Close>>)

\* part_002:98-127
PlanPart002A(res) ==
    IF res.type = "image"
    THEN CharPlan(IntroText, "sse", 10,
                  <<Enq(InlinePiece("sse", Get(MatchDataUrl(res.content)))),
                    Enq(FinishPiece("sse")), Enq(DonePiece), Close>>)
    ELSE CharPlan(res.content, "sse", 10,
                  <<Enq(FinishPiece("sse")), Enq(DonePiece), Close>>)

\* main.ts:238-297
PlanMainB(url, ctx) ==
    Plan(<<Enq(Stamped(Piece("sse", "role", <<>>, <<>>, None), "chatcmpl-", ctx, TRUE)),
           Enq(Stamped(Piece("sse", "images", <<>>, <<>>, Some(url)), "chatcmpl-", ctx, TRUE)),
           Enq(Stamped(Piece("sse", "finish", <<>>, <<>>, None), "chatcmpl-", ctx, TRUE)),
           Enq(Stamped(Piece("sse", "usage", <<>>, <<>>, None), "chatcmpl-", ctx, TRUE)),
           Enq(DonePiece), Close>>, <<>>)

\* part_004:122-176, part_005:312-365  partial_image_b64 is split(',')[1]
PlanResponsesApi(url) ==
    Plan(<<Enq(Piece("sse", "generating", <<>>, <<>>, None)),
           Enq(Piece("sse", "partial_image", <<>>, <<>>, SplitComma1(url))),
           Enq(Piece("sse", "completed", <<>>, <<>>, None)),
           Enq(Piece("sse", "response_completed", <<>>, <<>>, None)),
           Enq(DonePiece), Close>>, <<>>)

\* a faulty stream whose sentinel-and-close timer is set to 120 ms, before
\* the 150 ms timer of the last chunk
PlanPart003_EarlyClose(url, ctx) ==
    Plan(<<>>,
         <<Tick(0, <<Enq(Stamped(Piece("sse", "generating", <<>>, <<>>, None),
                             "image-gen-", ctx, FALSE))>>),
           Tick(50, <<Enq(Stamped(Piece("sse", "partial_image", <<>>, <<>>, SplitComma1(url)),
                              "image-gen-", ctx, FALSE))>>),
           Tick(100, <<Enq(Stamped(Piece("sse", "completed", <<>>, <<>>, None),
                               "image-gen-", ctx, FALSE))>>),
           Tick(150, <<Enq(Stamped(Piece("sse", "response_completed", <<>>, <<>>, None),
                               "chatcmpl-", ctx, TRUE))>>),
           Tick(120, <<Enq(DonePiece), Close>>)>>)

\* part_003:145-221  every write is made from its own setTimeout
PlanPart003(url, ctx) ==
    Plan(<<>>,
         <<Tick(0, <<Enq(Stamped(Piece("sse", "generating", <<>>, <<>>, None),
                             "image-gen-", ctx, FALSE))>>),
           Tick(50, <<Enq(Stamped(Piece("sse", "partial_image", <<>>, <<>>, SplitComma1(url)),
                              "image-gen-", ctx, FALSE))>>),
           Tick(100, <<Enq(Stamped(Piece("sse", "completed", <<>>, <<>>, None),
                               "image-gen-", ctx, FALSE))>>),
           Tick(150, <<Enq(Stamped(Piece("sse", "response_completed", <<>>, <<>>, None),
                               "chatcmpl-", ctx, TRUE))>>),
           Tick(200, <<Enq(DonePiece), Close>>)>>)

\* part_005:138-151  one chunk whose delta.content holds the image URL
PlanPart005A(url, ctx) ==
    Plan(<<Enq(Stamped(Piece("sse", "delta_content", <<>>, <<>>, Some(url)),
                       "chatcmpl-", ctx, TRUE)),
           Enq(DonePiece), Close>>, <<>>)

\* the chat handler's stream for an image URL
ChatPlan(r, url, ctx) ==
    CASE r = "main_b" -> PlanMainB(url, ctx)
      [] r = "part_003" -> PlanPart003(url, ctx)
      [] r = "part_005_a" -> PlanPart005A(url, ctx)
      [] OTHER -> PlanResponsesApi(url)

\* the older Gemini handlers' stream for a matched data URL
GeminiPlan(r, m) ==
    CASE r = "main_a" -> PlanMainA(m)
      [] r = "part_002_b" -> PlanPart002B(m)
      [] r = "part_002_c" -> PlanPart002C(m)
      [] OTHER -> PlanPart006(m)

---------------------------------------------------------------------------
(* The handlers up to the fetch *)

\* a faulty rejection that answers the error and sends the fetch all the same
Reject_StillFetches(resp) ==
    [fetch |-> Some(Fetch(<<>>, PlainPayload(<<>>, <<>>))), response |-> Some(resp)]

\* a handler that returns before any fetch
Reject(resp) == [fetch |-> None, response |-> Some(resp)]

\* callOpenRouter up to its `await fetch`: part_006:16 and part_002:17 throw
\* on an empty key, which the handler's catch turns into a 500
Send(r, e, apiKey, payload) ==
    IF CallStyle(r) \in {"C", "D"} /\ apiKey = <<>>
    THEN Reject(ErrorResponse(e, MsgEmptyApiKey, 500))
    ELSE [fetch |-> Some(Fetch(apiKey, payload)), response |-> None]

\* main.ts:53-70, part_001:53-72, part_002:205-227, part_002:352-371,
\* part_006:52-71  the single-turn Gemini handlers
GeminiSingleTurn(r, e, auth, xgoog, contents) ==
    LET apiKey == GeminiApiKey(r, auth, xgoog)
        i == IF IsSome(contents) THEN FindUser(Get(contents)) ELSE 0
    IN IF GeminiChecksKey(r) /\ apiKey = <<>>
       THEN Reject(ErrorResponse(e, MsgApiKeyMissing, 401))
       ELSE IF i = 0 \/ ~IsSome(Get(contents)[i].parts)
       THEN Reject(ErrorResponse(e, MsgNoUserParts, 400))
       ELSE LET parts == Get(Get(contents)[i].parts)
            IN Send(r, e, apiKey, PlainPayload(GeminiPrompt(parts), GeminiImages(parts)))

\* part_002:62-79  geminiHandler: the whole conversation is forwarded
geminiHandler(e, auth, xgoog, contents) ==
    LET apiKey == ApiKeyReplace(auth, xgoog)
    IN IF apiKey = <<>>
       THEN Reject(ErrorResponse(e, MsgApiKeyMissing, 401))
       ELSE IF ~IsSome(contents) \/ Get(contents) = <<>>
       THEN Reject(ErrorResponse(e, MsgNoContents, 400))
       ELSE IF \E i \in 1..Len(Get(contents)) : ~IsSome(Get(contents)[i].parts)
       THEN Reject(ErrorResponse(e, MsgNotIterable, 500))
       ELSE Send("part_002_a", e, apiKey, HistoryPayload(Get(contents)))

\* a faulty handler that looks for the prompt before it looks at the
\* credentials
ChatHandler_PromptFirst(r, e, auth, messages) ==
    LET key == ChatApiKey(auth)
        i == IF IsSome(messages) THEN FindUser(Get(messages)) ELSE 0
    IN IF i = 0 \/ ContentFalsy(Get(messages)[i].content)
       THEN Reject(ErrorResponse(e, MsgNoUserMessage, 400))
       ELSE LET content == Get(messages)[i].content
            IN IF ChatPrompt(content) = <<>>
               THEN Reject(ErrorResponse(e, MsgPromptMissing, 400))
               ELSE IF ~IsSome(key)
               THEN Reject(ErrorResponse(e, MsgAuthInvalid, 401))
               ELSE Send(r, e, Get(key),
                         AnnotatedPayload(ChatPrompt(content), ChatImages(content)))

\* main.ts:218-236  /v1/chat/completions
ChatHandler(r, e, auth, messages) ==
    LET key == ChatApiKey(auth)
        i == IF IsSome(messages) THEN FindUser(Get(messages)) ELSE 0
    IN IF ~IsSome(key)
       THEN Reject(ErrorResponse(e, MsgAuthInvalid, 401))
       ELSE IF i = 0 \/ ContentFalsy(Get(messages)[i].content)
       THEN Reject(ErrorResponse(e, MsgNoUserMessage, 400))
       ELSE LET content == Get(messages)[i].content
            IN IF ChatPrompt(content) = <<>>
               THEN Reject(ErrorResponse(e, MsgPromptMissing, 400))
               ELSE Send(r, e, Get(key),
                         AnnotatedPayload(ChatPrompt(content), ChatImages(content)))

\* main.ts:313-319  /generate
GenerateHandler(r, e, body, envKey) ==
    LET apiKey == GenerateApiKey(body.apikey, envKey)
    IN IF apiKey = <<>>
       THEN Reject(ErrorResponse(e, MsgKeyNotSet, 500))
       ELSE IF ~Truthy(body.prompt) \/ ~IsSome(body.images) \/ Get(body.images) = <<>>
       THEN Reject(ErrorResponse(e, MsgPromptImagesRequired, 400))
       ELSE Send(r, e, apiKey, AnnotatedPayload(Get(body.prompt), Get(body.images)))

\* a faulty handler that forwards the model name the caller gave
Handle_ForwardsModel(r, q, envKey) ==
    LET out == CASE q.endpoint = "chat" -> ChatHandler(r, q.endpoint, q.auth, q.body)
                 [] q.endpoint = "generate" ->
                       GenerateHandler(r, q.endpoint, q.body, envKey)
                 [] q.endpoint \in {"gemini_stream", "gemini_generate"}
                    /\ r = "part_002_a" ->
                       geminiHandler(q.endpoint, q.auth, q.xgoog, q.body)
                 [] OTHER -> GeminiSingleTurn(r, q.endpoint, q.auth, q.xgoog, q.body)
    IN IF IsSome(out.fetch) /\ IsSome(q.model)
       THEN [out EXCEPT !.fetch =
                Some([Get(out.fetch) EXCEPT !.payload.model = Get(q.model)])]
       ELSE out

\* the handler the revision routes the request to
Handle(r, q, envKey) ==
    IF ~q.parsed THEN Reject(ErrorResponse(q.endpoint, MsgNotJson, 500))
    ELSE
    CASE q.endpoint = "chat" -> ChatHandler(r, q.endpoint, q.auth, q.body)
      [] q.endpoint = "generate" -> GenerateHandler(r, q.endpoint, q.body, envKey)
      [] q.endpoint \in {"gemini_stream", "gemini_generate"} /\ r = "part_002_a" ->
            geminiHandler(q.endpoint, q.auth, q.xgoog, q.body)
      [] OTHER -> GeminiSingleTurn(r, q.endpoint, q.auth, q.xgoog, q.body)

---------------------------------------------------------------------------
(* The handlers after callOpenRouter has settled *)

Answer(resp) == [response |-> resp, plan |-> None]

Stream(e, plan) == [response |-> StreamResponse(e), plan |-> Some(plan)]

\* a faulty handler that opens its stream and writes the intro text before
\* it has matched the data URL
GeminiSingleTurnFinish_StreamsFirst(r, e, res) ==
    LET m == MatchDataUrl(res.content)
    IN IF ~IsSome(m)
       THEN Stream(e, Plan(<<Enq(TextPiece("sse", IntroText)), Close>>, <<>>))
       ELSE Stream(e, GeminiPlan(r, Get(m)))

\* main.ts:73-76 then the revision's response
GeminiSingleTurnFinish(r, e, res) ==
    LET m == MatchDataUrl(res.content)
    IN IF ~IsSome(m) THEN Answer(ErrorResponse(e, MsgNotBase64, 500))
       ELSE IF r = "part_001"
            THEN Answer(JsonResponse(e, <<TextPiece("json", IntroText),
                                          InlinePiece("json", Get(m))>>))
            ELSE Stream(e, GeminiPlan(r, Get(m)))

\* part_002:82-139
geminiHandlerFinish(e, res) ==
    IF res.type = "image" /\ ~IsSome(MatchDataUrl(res.content))
    THEN Answer(ErrorResponse(e, MsgNotBase64, 500))
    ELSE IF e = "gemini_stream" THEN Stream(e, PlanPart002A(res))
    ELSE IF res.type = "image"
         THEN Answer(JsonResponse(e, <<TextPiece("json", IntroText),
                                       InlinePiece("json", Get(MatchDataUrl(res.content)))>>))
         ELSE Answer(JsonResponse(e, <<TextPiece("json", res.content)>>))

\* main.ts:320  { imageUrl: generatedImageUrl }
GenerateFinish(e, res) ==
    Answer(JsonResponse(e, <<Piece("json", "imageUrl", <<>>, <<>>, Some(res.content))>>))

\* what the handler does with callOpenRouter's outcome; a throw lands in the
\* handler's catch, which answers 500 with error.message
Finish(r, e, res, ctx) ==
    IF res.thrown THEN Answer(ErrorResponse(e, res.message, 500))
    ELSE CASE e = "chat" -> Stream(e, ChatPlan(r, res.content, ctx))
           [] e = "generate" -> GenerateFinish(e, res)
           [] e \in {"gemini_stream", "gemini_generate"} /\ r = "part_002_a" ->
                 geminiHandlerFinish(e, res)
           [] OTHER -> GeminiSingleTurnFinish(r, e, res)

---------------------------------------------------------------------------
(* The companion page (part_000) *)

\* what the user can have typed into the key and prompt inputs
KeyInputs == { <<>>, <<" ">>, Key1 }

PromptInputs == { <<>>, <<" ">>, PromptA }

\* how many files selectedFiles can hold
MaxFiles == 2

\* how many click handlers the model lets run at the same time
MaxPending == 2

\* String.prototype.trim
RECURSIVE TrimStart(_)
TrimStart(s) == IF s # <<>> /\ Head(s) = " " THEN TrimStart(Tail(s)) ELSE s

RECURSIVE TrimEnd(_)
TrimEnd(s) ==
    IF s # <<>> /\ s[Len(s)] = " " THEN TrimEnd(SubSeq(s, 1, Len(s) - 1)) ELSE s

Trim(s) == TrimEnd(TrimStart(s))

\* the result area: empty, an image (displayResult) or an error paragraph;
\* from tells whether the server's reply or a local failure led to it
Shown(kind, value, from) == [kind |-> kind, value |-> value, from |-> from]

\* the page after DOMContentLoaded
PageLoaded ==
    [disabled |-> FALSE, spinner |-> FALSE, label |-> "Generate", alert |-> "",
     shown |-> Shown("none", <<>>, "none"), runs |-> <<>>]

\* a faulty setLoading that shows the spinner and leaves the button enabled
setLoading_ButtonStaysEnabled(p, isLoading) ==
    [p EXCEPT !.spinner = isLoading,
              !.label = IF isLoading THEN "Generating..." ELSE "Generate"]

\* part_000:153-157
setLoading(p, isLoading) ==
    [p EXCEPT !.disabled = isLoading,
              !.spinner = isLoading,
              !.label = IF isLoading THEN "Generating..." ELSE "Generate"]

\* one run of the click handler that passed the checks: where it waits
\* ("reading" the file, "fetching", "parsing" the body) and what was typed
Run(at, key, prompt) == [at |-> at, key |-> key, prompt |-> prompt]

\* part_000:102-121  the fetch: Content-Type is its only header
PageModel == "gpt-4o"

PageRequest(prompt, base64Image) ==
    InboundRequest("chat", None, None,
                   Some(<<OTurn("user", OArray(<<OTextPart(prompt),
                                                 OImagePart(Some(base64Image))>>))>>),
                   Some(PageModel))

\* what serveDir answers to a POST for a path that is no file
StaticMiss ==
    [kind |-> "static", shape |-> "static", status |-> 404, message |-> <<>>,
     parts |-> <<>>]

MsgPageNotJson == <<"Unexpected token is not valid JSON">>

MsgPageUnexpected == <<"API response format is not the expected one.">>

MsgPageText == <<"API returned text content and not an image URL">>

MsgFileRead == <<"FileReader error">>

MsgFetchFailed == <<"Failed to fetch">>

\* `await response.json()`: a stream of SSE lines and a static answer are no
\* JSON; an error document has `error`; no document of this server has
\* `choices`
PageDocument(resp) ==
    CASE resp.kind = "error" ->
            [ok |-> TRUE, content |-> None, error |-> Some(resp.message)]
      [] resp.kind = "json" -> [ok |-> TRUE, content |-> None, error |-> None]
      [] OTHER -> [ok |-> FALSE, content |-> None, error |-> None]

ImageSuffixes ==
    { <<".","p","n","g">>, <<".","j","p","g">>, <<".","j","p","e","g">>,
      <<".","g","i","f">>, <<".","w","e","b","p">> }

\* the first group of /\((https?:\/\/[^)]+\.(?:png|jpg|jpeg|gif|webp))\)/,
\* None when the content has no match
MarkdownImageUrl(content) ==
    LET spans == { <<i, j>> \in (1..Len(content)) \X (1..Len(content)) :
                     /\ i + 1 < j /\ content[i] = "(" /\ content[j] = ")"
                     /\ \A k \in (i + 1)..(j - 1) : content[k] # ")"
                     /\ \/ StartsWith(SubSeq(content, i + 1, j - 1),
                                      <<"h","t","t","p",":","/","/">>)
                        \/ StartsWith(SubSeq(content, i + 1, j - 1),
                                      <<"h","t","t","p","s",":","/","/">>)
                     /\ \E x \in ImageSuffixes :
                           /\ Len(x) < j - i - 1
                           /\ SubSeq(content, j - Len(x), j - 1) = x }
    IN IF spans = {} THEN None
       ELSE LET m == CHOOSE a \in spans : \A b \in spans : a[1] <= b[1]
            IN Some(SubSeq(content, m[1] + 1, m[2] - 1))

\* part_000:125-143  the result area after the body was read
PageParse(doc) ==
    IF ~doc.ok THEN Shown("error", MsgPageNotJson, "server")
    ELSE IF Truthy(doc.content)
    THEN IF IsSome(MarkdownImageUrl(Get(doc.content)))
         THEN Shown("image", Get(MarkdownImageUrl(Get(doc.content))), "server")
         ELSE IF StartsWith(Get(doc.content), <<"d","a","t","a",":","i","m","a","g","e">>)
         THEN Shown("image", Get(doc.content), "server")
         ELSE Shown("error", MsgPageText, "server")
    ELSE IF IsSome(doc.error) THEN Shown("error", Get(doc.error), "server")
    ELSE Shown("error", MsgPageUnexpected, "server")

\* part_000:144-150  the catch and finally blocks, or displayResult and the
\* finally block: the run i ends
Settle(p, i, outcome) ==
    [setLoading(p, FALSE) EXCEPT
        !.shown = outcome,
        !.alert = IF outcome.kind = "error" THEN "error" ELSE @,
        !.runs = SubSeq(p.runs, 1, i - 1) \o SubSeq(p.runs, i + 1, Len(p.runs))]

---------------------------------------------------------------------------
(* The state machine *)

\* the environment key is read by /generate alone
EnvOf(r) == IF "generate" \in Routes(r) THEN EnvValues ELSE {None}

\* the headers a handler reads: /generate reads none, the chat handler
\* Authorization, the Gemini handlers Authorization and x-goog-api-key
AuthOf(e) == IF e = "generate" THEN {None} ELSE AuthValues

GoogOf(e) == IF e \in {"chat", "generate"} THEN {None} ELSE GoogValues

\* the model name is read by the chat handler alone
ModelsOf(e) == IF e = "chat" THEN ModelValues ELSE {None}

\* the requests one process of the server has in flight together; each runs
\* the handler in a call of its own
Slots == { 1, 2 }

\* a request slot before its request has arrived: everything the handler
\* and the stream's start() keep is local to the call
Idle == [pc |-> "idle", req |-> None, calls |-> <<>>, reply |-> None,
         ctx |-> None, result |-> None, response |-> None,
         controller |-> NewController, timers |-> <<>>, cancelled |-> FALSE]

Init ==
    /\ rev \in Revisions
    /\ env \in EnvOf(rev)
    /\ pc = "idle"
    /\ req = None
    /\ upstreamCalls = <<>>
    /\ reply = None
    /\ result = None
    /\ response = None
    /\ controller = NewController
    /\ timers = <<>>
    /\ inflight = [i \in Slots |-> Idle]
    /\ page = PageLoaded

\* a request arrives on a route the revision implements: the handler runs
\* to its first return or to the fetch
RequestFrom(Bodies, Models, Parsed) ==
    /\ pc = "idle"
    /\ \E e \in Routes(rev), ok \in Parsed :
         \E a \in AuthOf(e), g \in GoogOf(e), b \in Bodies[e], md \in Models[e] :
            LET q == [InboundRequest(e, a, g, b, md) EXCEPT !.parsed = ok]
                out == Handle(rev, q, env)
            IN /\ req' = Some(q)
               /\ response' = out.response
               /\ upstreamCalls' = IF IsSome(out.fetch)
                                   THEN Append(upstreamCalls, Get(out.fetch))
                                   ELSE upstreamCalls
               /\ pc' = IF IsSome(out.fetch) THEN "fetching" ELSE "done"
    /\ UNCHANGED <<page, inflight, rev, env, reply, result, controller, timers>>

Request ==
    RequestFrom([e \in Endpoints |-> BodiesOf(e)], [e \in Endpoints |-> ModelsOf(e)],
                {TRUE})

\* a request for a route the revision does not implement falls through to
\* the static file server
ServeStatic ==
    /\ pc = "idle"
    /\ \E e \in Endpoints \ Routes(rev) :
         /\ req' = Some(InboundRequest(e, None, None, None, None))
         /\ response' = Some([kind |-> "static", shape |-> "static", status |-> 200,
                              message |-> <<>>, parts |-> <<>>])
    /\ pc' = "done"
    /\ UNCHANGED <<page, inflight, rev, env, upstreamCalls, reply, result, controller, timers>>

\* the fetch returns: callOpenRouter settles and the handler builds its
\* response; a stream's start() runs until it returns or first awaits
UpstreamReply ==
    /\ pc = "fetching"
    /\ \E rp \in Replies, uuid \in Uuids, created \in Clock :
         LET res == callOpenRouter(CallStyle(rev), rp)
             ctx == Ctx(uuid, created, RequestedModel(Get(req).model))
             out == Finish(rev, Get(req).endpoint, res, ctx)
         IN /\ reply' = Some(rp)
            /\ result' = Some(res)
            /\ response' = Some(out.response)
            /\ IF IsSome(out.plan)
               THEN /\ controller' = RunOps(NewController, Get(out.plan).sync)
                    /\ timers' = Get(out.plan).later
                    /\ pc' = IF Get(out.plan).later = <<>> THEN "done" ELSE "streaming"
               ELSE /\ pc' = "done"
                    /\ UNCHANGED <<controller, timers>>
    /\ UNCHANGED <<page, inflight, rev, env, req, upstreamCalls>>

\* the pending timer that fires next: the one with the least delay, and
\* among equal delays the one registered first
Soonest(ts) ==
    CHOOSE i \in 1..Len(ts) :
        \A j \in 1..Len(ts) :
            \/ ts[i].delay < ts[j].delay
            \/ ts[i].delay = ts[j].delay /\ i <= j

\* the pending timers once timer i has fired
Without(ts, i) == SubSeq(ts, 1, i - 1) \o SubSeq(ts, i + 1, Len(ts))

\* the soonest pending timer fires and its callback runs
TimerFire ==
    /\ pc = "streaming"
    /\ timers # <<>>
    /\ controller' = RunOps(controller, timers[Soonest(timers)].ops)
    /\ timers' = Without(timers, Soonest(timers))
    /\ pc' = IF Len(timers) = 1 THEN "done" ELSE "streaming"
    /\ UNCHANGED <<page, inflight, rev, env, req, upstreamCalls, reply, result, response>>

Next == Request \/ ServeStatic \/ UpstreamReply \/ TimerFire

Spec == Init /\ [][Next]_vars

---------------------------------------------------------------------------
(* Vocabulary of the properties *)

Served == IsSome(req) /\ Get(req).endpoint \in Routes(rev)

Endpoint == Get(req).endpoint

IsGemini == Served /\ Endpoint \in {"gemini_stream", "gemini_generate"}

Replied == IsSome(reply) /\ IsSome(result) /\ IsSome(response)

Succeeded == IsSome(response) /\ Get(response).kind \in {"json", "stream"}

\* the parts of the JSON document, or the chunks written so far
Output ==
    IF IsSome(response) /\ Get(response).kind = "json"
    THEN Get(response).parts ELSE controller.queue

\* the last message with role user in a sent payload
LastUserMessage(call) ==
    LET ms == call.payload.messages
        us == { i \in 1..Len(ms) : ms[i].role = "user" }
    IN ms[CHOOSE i \in us : \A j \in us : j <= i]

HasUserMessage(call) ==
    \E i \in 1..Len(call.payload.messages) : call.payload.messages[i].role = "user"

IsTextItem(it) == it.type = "text"

IsImageItem(it) == it.type = "image_url"

\* the prompt text a call carries: its last text item, empty when none
ForwardedPrompt(call) ==
    IF ~HasUserMessage(call) THEN <<>>
    ELSE LET ts == SelectSeq(LastUserMessage(call).content, IsTextItem)
         IN IF ts = <<>> THEN <<>> ELSE ts[Len(ts)].text

ForwardedImages(call) ==
    IF ~HasUserMessage(call) THEN <<>>
    ELSE LET is == SelectSeq(LastUserMessage(call).content, IsImageItem)
         IN [i \in 1..Len(is) |-> is[i].url]

\* the last turn with role user of a conversation, 0 when there is none
LastUser(turns) ==
    LET us == { i \in 1..Len(turns) : turns[i].role = "user" }
    IN IF us = {} THEN 0 ELSE CHOOSE i \in us : \A j \in us : j <= i

UserTurns(turns) == { i \in 1..Len(turns) : turns[i].role = "user" }

InSeq(x, s) == \E i \in 1..Len(s) : s[i] = x

---------------------------------------------------------------------------
(* C1 *)

\* C1: a request whose extracted prompt is missing or empty is answered 400
\* and never reaches the upstream: no fetch carries an empty prompt.
C1_NoEmptyPromptUpstream ==
    \A i \in 1..Len(upstreamCalls) : ForwardedPrompt(upstreamCalls[i]) # <<>>

---------------------------------------------------------------------------
(* C2 *)

NoCredentials ==
    /\ Get(req).auth = None
    /\ Get(req).xgoog = None
    /\ Endpoint = "generate" => (Get(req).body.apikey = None /\ env = None)

\* C2: a request that carries no credentials is answered 401 and the
\* upstream fetch is never invoked for it.
C2_NoCredentialsRejected ==
    (Served /\ NoCredentials) =>
        /\ upstreamCalls = <<>>
        /\ IsSome(response) /\ Get(response).kind = "error"
        /\ Get(response).status = 401

---------------------------------------------------------------------------
(* C3 *)

ReplyHasImages == IsSome(reply) /\ Get(reply).ok /\ IsSome(FirstImageOf(Get(reply)))

ReplyContentIsDataImage ==
    /\ IsSome(reply) /\ Get(reply).ok /\ IsSome(ContentOf(Get(reply)))
    /\ StartsWith(Get(ContentOf(Get(reply))), DataImagePrefix)

---------------------------------------------------------------------------
(* C4 *)

Mimes == {Png, Jpeg}

Payloads == {Zm9v, QUJD}

\* the output carries the inline image (m, d): as inlineData, as the whole
\* data URL, or as the bare payload of a partial_image chunk
CarriesInline(m, d) ==
    \E i \in 1..Len(Output) :
        \/ Output[i].t = "inlineData" /\ Output[i].mimeType = m /\ Output[i].data = Some(d)
        \/ Output[i].t \in {"images", "delta_content", "imageUrl"}
              /\ Output[i].data = Some(DataPrefix \o m \o Base64Marker \o d)
        \/ Output[i].t = "partial_image" /\ Output[i].data = Some(d)

HasTextOutput == \E i \in 1..Len(Output) : Output[i].t = "text"

\* C4 as claimed: a content string beginning with data:image/ always gives
\* image output, never a text result and never an error response.
C4_DataContentNeverFails ==
    (Replied /\ ReplyContentIsDataImage) =>
        /\ ~Get(result).thrown /\ Get(result).type = "image"
        /\ Get(response).kind # "error"

\* C4 amended: for a content string beginning with data:image/,
\* callOpenRouter returns an image result, never text and never a throw: the
\* content itself, or in the images-first revision the images entry when one
\* is present.  The chat and /generate handlers then answer with a success
\* response; the Gemini handlers answer with a success response when the
\* selected string matches ^data:(.+);base64,(.*)$ and with a 500 error
\* otherwise.  When the selected string is data:<mime>;base64,<payload>, the
\* finished output carries that image.
C4_DataContentIsImage ==
    (Replied /\ ReplyContentIsDataImage) =>
        LET sel == IF CallStyle(rev) = "D" /\ ReplyHasImages
                   THEN Get(FirstImageOf(Get(reply)))
                   ELSE Get(ContentOf(Get(reply)))
            wellFormed == \E m \in Mimes, d \in Payloads :
                              sel = DataPrefix \o m \o Base64Marker \o d
            hasMarker == \E i \in 7..(Len(sel) - 7) :
                              SubSeq(sel, i, i + 7) = Base64Marker
        IN /\ Get(result) = Returned("image", sel)
           /\ IF IsGemini /\ ~(StartsWith(sel, DataPrefix) /\ hasMarker)
              THEN Get(response) = ErrorResponse(Endpoint, MsgNotBase64, 500)
              ELSE Succeeded
           /\ (wellFormed /\ pc = "done") =>
                 \E m \in Mimes, d \in Payloads :
                    sel = DataPrefix \o m \o Base64Marker \o d /\ CarriesInline(m, d)

\* a well-formed data URL content has been turned into a finished stream
C4_Witness ==
    /\ Replied /\ ReplyContentIsDataImage /\ ~ReplyHasImages
    /\ pc = "done" /\ Get(response).kind = "stream"
    /\ CarriesInline(Png, Zm9v)

---------------------------------------------------------------------------
(* C5 *)

\* every image URL of a sent payload
SentUrls(call) ==
    UNION { { call.payload.messages[i].content[j].url :
                j \in 1..Len(call.payload.messages[i].content) } :
            i \in 1..Len(call.payload.messages) } \ {<<>>}

\* the upstream answers with the URL u it was sent and no other image:
\* as its content, or as its images entry
Echoes(u) ==
    /\ upstreamCalls # <<>> /\ u \in SentUrls(upstreamCalls[1])
    /\ IsSome(reply) /\ Get(reply).ok
    /\ \/ ContentOf(Get(reply)) = Some(u) /\ ~ReplyHasImages
       \/ FirstImageOf(Get(reply)) = Some(u) /\ ~ReplyContentIsDataImage

\* the output names MIME type m and payload d: as inlineData, or inside the
\* whole data URL
CarriesMimeAndPayload(m, d) ==
    \E i \in 1..Len(Output) :
        \/ Output[i].t = "inlineData" /\ Output[i].mimeType = m /\ Output[i].data = Some(d)
        \/ Output[i].t \in {"images", "delta_content", "imageUrl"}
              /\ Output[i].data = Some(DataPrefix \o m \o Base64Marker \o d)

\* the chat handlers that write partial_image_b64
ResponsesApiRevisions == {"part_003", "part_004", "part_005_b"}

---------------------------------------------------------------------------
(* C6 *)

Streaming == IsSome(response) /\ Get(response).kind = "stream"

LastChunk == controller.queue[Len(controller.queue)]

\* the Gemini revisions that write newline-delimited JSON and no sentinel
NoSentinelRevisions == {"main_a", "part_002_b", "part_002_c"}

---------------------------------------------------------------------------
(* C7 *)

\* C7: for a conversation with several user turns, the prompt and the
\* images forwarded upstream are those of the last user turn.
C7_LastUserTurnForwarded ==
    (Served /\ Endpoint # "generate" /\ upstreamCalls # <<>>) =>
        LET turns == Get(Get(req).body)
            last == turns[LastUser(turns)]
        IN IF Endpoint = "chat"
           THEN /\ ForwardedPrompt(upstreamCalls[1]) = ChatPrompt(last.content)
                /\ ForwardedImages(upstreamCalls[1]) = ChatImages(last.content)
           ELSE /\ ForwardedPrompt(upstreamCalls[1]) = GeminiPrompt(Get(last.parts))
                /\ ForwardedImages(upstreamCalls[1]) = GeminiImages(Get(last.parts))

---------------------------------------------------------------------------
(* C8 *)

\* C8: after a non-success upstream status the request fails with an error
\* response whose message contains the upstream's status text and its
\* body, and nothing is written on a stream.
C8_UpstreamErrorPropagated ==
    (Replied /\ ~Get(reply).ok) =>
        /\ Get(response).kind = "error"
        /\ InSeq(Get(reply).statusText, Get(response).message)
        /\ InSeq(Get(reply).body, Get(response).message)
        /\ controller.queue = <<>>

---------------------------------------------------------------------------
(* C9 *)

ReplyIsPlainText ==
    /\ IsSome(reply) /\ Get(reply).ok /\ IsSome(ContentOf(Get(reply)))
    /\ ~StartsWith(Get(ContentOf(Get(reply))), DataImagePrefix)
    /\ ~IsSome(FirstImageOf(Get(reply)))

\* C9: a reply whose content is a plain string not beginning with
\* data:image/ and which has no images entry yields a text result equal to
\* that string, which the handler returns as text and not as an error.
C9_PlainTextIsReturned ==
    (Replied /\ ReplyIsPlainText) =>
        /\ Get(result) = Returned("text", Get(ContentOf(Get(reply))))
        /\ Get(response).kind # "error"

---------------------------------------------------------------------------
(* C10 *)

\* the caller's credential: the Authorization value without a leading
\* "Bearer ", or the x-goog-api-key value when there is no Authorization
CallerCredential(q) ==
    IF IsSome(q.auth)
    THEN IF StartsWith(Get(q.auth), BearerPrefix)
         THEN SubSeq(Get(q.auth), Len(BearerPrefix) + 1, Len(Get(q.auth)))
         ELSE Get(q.auth)
    ELSE Get(q.xgoog)

\* C10: the key placed in the upstream Authorization: Bearer header is the
\* caller's credential unchanged.
C10_CredentialForwardedUnchanged ==
    (Served /\ Endpoint # "generate" /\ upstreamCalls # <<>>
            /\ (IsSome(Get(req).auth) \/ IsSome(Get(req).xgoog))) =>
        upstreamCalls[1].authorization = BearerPrefix \o CallerCredential(Get(req))

---------------------------------------------------------------------------
(* C11 *)

\* the handler returned an error before any reply of the upstream arrived
RejectedBeforeFetch ==
    IsSome(response) /\ Get(response).kind = "error" /\ ~IsSome(reply)

\* C11: each request causes at most one upstream fetch: none when the
\* handler rejects the request, exactly one when validation passes, and
\* still exactly one after the upstream failed or its reply was unusable.
C11_AtMostOneFetch ==
    /\ Len(upstreamCalls) <= 1
    /\ Served /\ RejectedBeforeFetch => upstreamCalls = <<>>
    /\ Served /\ ~RejectedBeforeFetch => Len(upstreamCalls) = 1
    /\ IsSome(reply) => Len(upstreamCalls) = 1
    /\ ~Served => upstreamCalls = <<>>

\* an upstream failure and an unusable reply have each ended a request
\* after its single fetch
C11_Witness ==
    /\ Replied /\ pc = "done" /\ Len(upstreamCalls) = 1
    /\ Get(response).kind = "error"
    /\ Get(result).thrown
    /\ Get(reply).ok

---------------------------------------------------------------------------
(* C12 *)

\* the items of message msg that are images
ImagesIn(msg) == SelectSeq(msg.content, IsImageItem)

\* C12: whenever a message sent upstream holds two or more images, its
\* text part is the prompt annotated with the number of images.
C12_PromptAnnotatedWithCount ==
    \A i \in 1..Len(upstreamCalls) :
        \A j \in 1..Len(upstreamCalls[i].payload.messages) :
            LET msg == upstreamCalls[i].payload.messages[j]
            IN Len(ImagesIn(msg)) >= 2 =>
                  \E k \in 1..Len(msg.content) :
                      /\ IsTextItem(msg.content[k])
                      /\ msg.content[k].prefix = Some(Len(ImagesIn(msg)))

---------------------------------------------------------------------------
(* C13 *)

\* part_003:153-156 and 214-218, part_002:269-285  the delayed writes run in
\* setTimeout callbacks of their own, outside every try/catch; the other
\* delayed streams await their timer inside an async start()
WritesFromTimerCallbacks(r) == r \in {"part_003", "part_002_b"}

\* the caller drops the connection while chunks are still pending: the
\* stream is cancelled and its controller no longer accepts writes
ClientCancel ==
    /\ pc = "streaming"
    /\ ~controller.closed
    /\ controller' = [controller EXCEPT !.closed = TRUE]
    /\ UNCHANGED <<page, inflight, rev, env, pc, req, upstreamCalls, reply, result, response, timers>>

\* a timer fires on a stream that still accepts writes
TimerFireOpen == ~controller.closed /\ TimerFire

\* a timer fires after the cancel: controller.enqueue throws a TypeError.
\* Thrown from a setTimeout callback it is caught by nothing and ends the
\* process; thrown inside an async start() it rejects the start promise,
\* which errors the stream, and the loop stops
TimerFireCancelled ==
    /\ pc = "streaming"
    /\ controller.closed
    /\ timers # <<>>
    /\ controller' = RunOps(controller, timers[Soonest(timers)].ops)
    /\ timers' = <<>>
    /\ pc' = IF WritesFromTimerCallbacks(rev) THEN "crashed" ELSE "done"
    /\ UNCHANGED <<page, inflight, rev, env, req, upstreamCalls, reply, result, response>>

NextCancel ==
    \/ Request
    \/ ServeStatic
    \/ UpstreamReply
    \/ TimerFireOpen
    \/ ClientCancel
    \/ TimerFireCancelled

SpecCancel == Init /\ [][NextCancel]_vars

\* C13: every error kind ends the request with a JSON error document that
\* carries a message and an HTTP error status, and no exception is ever
\* left uncaught, in a stream's start callback or in a timer callback.
C13_ErrorsFailOnlyTheRequest ==
    /\ pc # "crashed"
    /\ (IsSome(response) /\ Get(response).kind = "error") =>
          /\ Get(response).message # <<>>
          /\ Get(response).status \in {400, 401, 500}
    /\ (Replied /\ (~Get(reply).ok \/ Get(result).thrown)) =>
          Get(response).kind = "error"
    /\ RejectedBeforeFetch => pc = "done"

---------------------------------------------------------------------------
(* C14 *)

\* a non-streaming handler has answered with a document built from an
\* image result
NonStreamingImage ==
    /\ Replied /\ Served /\ Endpoint \in {"generate", "gemini_generate"}
    /\ Get(response).kind = "json"
    /\ ~Get(result).thrown /\ Get(result).type = "image"

\* C14 as claimed: every non-streaming success document contains the image
\* as the very string the upstream returned.
C14_ExactUrlInDocument ==
    NonStreamingImage =>
        \E i \in 1..Len(Output) : Output[i].data = Some(Get(result).content)

\* C14 amended: /generate answers { imageUrl } holding the very string the
\* upstream returned.  The Gemini :generateContent handlers never put that
\* string in the document: they answer the intro text part followed by one
\* inlineData part whose mimeType and data are the two halves of the string,
\* so that data:<mimeType>;base64,<data> is the string the upstream returned.
C14_DocumentCarriesImage ==
    NonStreamingImage =>
        LET url == Get(result).content
        IN IF Endpoint = "generate"
           THEN Output = <<Piece("json", "imageUrl", <<>>, <<>>, Some(url))>>
           ELSE /\ Len(Output) = 2
                /\ Output[1] = TextPiece("json", IntroText)
                /\ Output[2].t = "inlineData"
                /\ DataUrl(Output[2].mimeType, Get(Output[2].data)) = url
                /\ \A i \in 1..Len(Output) : Output[i].data # Some(url)

\* part_001 has answered data:image/png;base64,Zm9v as an inlineData part
C14_Witness ==
    /\ NonStreamingImage /\ rev = "part_001"
    /\ Get(result).content = DataUrl(Png, Zm9v)
    /\ Output[2] = InlinePiece("json", <<Png, Zm9v>>)

---------------------------------------------------------------------------
(* C15 *)

\* callOpenRouter has returned the remote URL of the reply's images entry
RemoteImageReturned ==
    /\ Replied /\ Get(reply).ok
    /\ FirstImageOf(Get(reply)) = Some(HttpsUrl)
    /\ Get(result) = Returned("image", HttpsUrl)

\* C15: an upstream image delivered as a remote URL is re-encoded into the
\* caller's output shape as a successful image response, by the Gemini
\* handlers and by the streaming chat handlers alike.
C15_RemoteUrlReencoded ==
    RemoteImageReturned =>
        /\ Succeeded
        /\ pc = "done" =>
              \E i \in 1..Len(Output) :
                  /\ Output[i].t \in {"inlineData", "images", "delta_content",
                                      "imageUrl", "partial_image"}
                  /\ IsSome(Output[i].data)

---------------------------------------------------------------------------
(* C17 *)

\* the kinds of the chunks written so far, in the order of their writes
KindsWritten == [i \in 1..Len(controller.queue) |-> controller.queue[i].t]

\* the order part_003 registers its five writes in
Part003Order == <<"generating", "partial_image", "completed", "response_completed", "done">>

\* C17: in the delayed stream of part_003 the chunks are enqueued in the
\* order generating, partial_image, completed, response.completed, [DONE];
\* close happens only after all five, and no callback writes on a closed
\* controller.
C17_DelayedStreamOrder ==
    (rev = "part_003" /\ Streaming) =>
        /\ Len(KindsWritten) <= 5
        /\ KindsWritten = SubSeq(Part003Order, 1, Len(KindsWritten))
        /\ Len(KindsWritten) + Len(timers) = 5
        /\ controller.closed <=> Len(KindsWritten) = 5
        /\ controller.closed <=> pc = "done"
        /\ ~controller.fault

\* three of the five timers of part_003 have fired
C17_Witness ==
    /\ rev = "part_003" /\ Streaming /\ pc = "streaming"
    /\ KindsWritten = <<"generating", "partial_image", "completed">>
    /\ Len(timers) = 2 /\ ~controller.closed

---------------------------------------------------------------------------
(* C19 *)

\* the Gemini streams framed as SSE: geminiHandler of part_002 and part_006
GeminiSse == IsGemini /\ Streaming /\ rev \in {"part_002_a", "part_006"}

\* the text parts of the chunks q, joined in the order of their writes
RECURSIVE JoinText(_)
JoinText(q) ==
    IF q = <<>> THEN <<>>
    ELSE (IF Head(q).t = "text" THEN Head(q).text ELSE <<>>) \o JoinText(Tail(q))

\* the number of chunks of kind k among q
CountKind(q, k) == Cardinality({ i \in 1..Len(q) : q[i].t = k })

\* the text the stream is to spell: the intro sentence for an image result,
\* the upstream text for a text result
TextToSpell == IF Get(result).type = "image" THEN IntroText ELSE Get(result).content

\* C19: the Gemini SSE stream writes its text one character per chunk, in
\* order, so that the joined text parts are exactly the intro sentence
\* (image result) or the upstream text (text result); for an image result
\* exactly one inlineData chunk follows the text; then exactly one
\* finishReason STOP chunk, then [DONE], then close.
C19_GeminiSseSequence ==
    GeminiSse =>
        LET q == controller.queue
            n == Len(TextToSpell)
            k == IF Get(result).type = "image" THEN 1 ELSE 0
        IN /\ \A i \in 1..Len(q) : q[i].t = "text" => Len(q[i].text) = 1
           /\ \A i \in 1..Len(q) : q[i].t = "text" <=> i <= n
           /\ JoinText(q) = SubSeq(TextToSpell, 1, CountKind(q, "text"))
           /\ pc = "done" =>
                 /\ JoinText(q) = TextToSpell
                 /\ Len(q) = n + k + 2
                 /\ CountKind(q, "inlineData") = k
                 /\ k = 1 => q[n + 1] = InlinePiece("sse", Get(MatchDataUrl(Get(result).content)))
                 /\ q[n + k + 1] = FinishPiece("sse")
                 /\ q[n + k + 2] = DonePiece
                 /\ controller.closed /\ ~controller.fault

\* geminiHandler has spelled a two-character upstream text and finished
C19_Witness ==
    /\ GeminiSse /\ pc = "done" /\ rev = "part_002_a"
    /\ Get(result).type = "text" /\ Len(Get(result).content) = 2
    /\ JoinText(controller.queue) = Get(result).content
    /\ Len(controller.queue) = 4

---------------------------------------------------------------------------
(* C20 *)

\* the kinds of chunk that carry the image in the various output shapes
ImageKinds == {"inlineData", "images", "delta_content", "partial_image"}

\* C20: a stream is opened only after the upstream has answered with
\* success and the result has been validated (in the Gemini handlers, the
\* data-URL pattern has matched); a request that ends in an error response
\* has written no chunk, and a stream that was opened runs to its complete
\* chunk sequence.
C20_StreamOpenedAfterValidation ==
    /\ Streaming =>
          /\ Replied /\ Get(reply).ok /\ ~Get(result).thrown
          /\ (IsGemini /\ Get(result).type = "image") =>
                IsSome(MatchDataUrl(Get(result).content))
    /\ ~Streaming =>
          controller = NewController /\ timers = <<>>
    /\ (Streaming /\ pc = "done") =>
          /\ controller.closed /\ ~controller.fault /\ timers = <<>>
          /\ Get(result).type = "image" =>
                CountKind(controller.queue, "inlineData")
                  + CountKind(controller.queue, "images")
                  + CountKind(controller.queue, "delta_content")
                  + CountKind(controller.queue, "partial_image") = 1
          /\ rev # "part_005_a" =>
                \E i \in 1..Len(controller.queue) :
                    controller.queue[i].t \in {"finish", "completed"}
    /\ pc \in {"idle", "fetching"} => ~IsSome(response)

\* a reply that fails the data-URL pattern has ended in an error response
\* and no chunk was written
C20_Witness ==
    /\ Replied /\ pc = "done" /\ rev = "part_006"
    /\ ~Get(result).thrown /\ ~IsSome(MatchDataUrl(Get(result).content))
    /\ Get(response) = ErrorResponse(Endpoint, MsgNotBase64, 500)
    /\ controller.queue = <<>>

---------------------------------------------------------------------------
(* C18 *)

\* the chat-completions stream of main.ts
MainChatStream == rev = "main_b" /\ Served /\ Endpoint = "chat" /\ Streaming

\* C18: the chat-completions stream of main.ts makes exactly five writes,
\* in the order role chunk, image chunk holding the full upstream URL,
\* finish chunk, usage chunk, data: [DONE], and then closes; the four JSON
\* chunks carry one id, one created value and the model name the caller
\* requested, gpt-4o when the caller named none.
C18_MainChatStreamChunks ==
    MainChatStream =>
        LET q == controller.queue
        IN /\ pc = "done" /\ timers = <<>>
           /\ KindsWritten = <<"role", "images", "finish", "usage", "done">>
           /\ q[2].data = Some(Get(result).content)
           /\ q[5] = DonePiece
           /\ controller.closed /\ ~controller.fault
           /\ \A i \in 1..4 :
                 /\ IsSome(q[i].meta)
                 /\ Get(q[i].meta).id = Get(q[1].meta).id
                 /\ Get(q[i].meta).created = Get(q[1].meta).created
                 /\ Get(q[i].meta).model =
                       Some(IF IsSome(Get(req).model) THEN Get(Get(req).model)
                            ELSE "gpt-4o")
           /\ Get(q[1].meta).id[1] = "chatcmpl-"
           /\ Get(q[1].meta).id[2] \in Uuids
           /\ Get(q[1].meta).created \in Clock

\* a caller that named no model has been answered with chunks of gpt-4o
C18_Witness ==
    /\ MainChatStream /\ Get(req).model = None
    /\ Len(controller.queue) = 5
    /\ Get(controller.queue[4].meta).model = Some("gpt-4o")
    /\ Get(controller.queue[4].meta).id = <<"chatcmpl-", "uuid-2">>

---------------------------------------------------------------------------
(* C16 *)

\* two requests in one process.  Each call of the serve handler has its own
\* req, apiKey, prompt and images (main.ts:208-231, part_003:100-141), each
\* start(controller) its own controller, uuid and created (main.ts:239-241,
\* part_003:145-148); no revision declares a module-level variable that a
\* handler writes.  The timers of both streams are pending together.

\* well-formed and rejected requests, a few per route
PairBodies(e) ==
    CASE e = "chat" ->
            { Some(<<OTurn("user", OString(PromptA))>>),
              Some(<<OTurn("user", OArray(<<OTextPart(PromptA),
                                            OImagePart(Some(DataUrl(Jpeg, QUJD)))>>))>>) }
      [] e = "generate" ->
            { [prompt |-> Some(PromptA), images |-> Some(<<DataUrl(Png, Zm9v)>>),
               apikey |-> Some(BodyKey)],
              [prompt |-> None, images |-> None, apikey |-> Some(BodyKey)] }
      [] OTHER ->
            { Some(<<GeminiTurn("user", <<TextPart(PromptA), InlinePart(Png, Zm9v)>>)>>),
              None }

\* the upstream refuses, or answers with a generated image
PairReplies ==
    { rp \in Replies :
        \/ ~rp.ok /\ rp.statusText = "Unauthorized"
        \/ /\ rp.ok
           /\ IsSome(rp.message)
           /\ Get(rp.message).content = Some(DataUrl(Png, Zm9v))
           /\ Get(rp.message).images = <<>> }

\* a request arrives while the other may be anywhere in its handling
PairRequest ==
    /\ \E i \in Slots :
         /\ inflight[i].pc = "idle"
         /\ \E e \in Routes(rev) : \E b \in PairBodies(e) :
              LET q == InboundRequest(e, IF e = "generate" THEN None
                                         ELSE Some(BearerPrefix \o Key1),
                                      None, b, None)
                  out == Handle(rev, q, env)
              IN inflight' =
                   [inflight EXCEPT ![i] =
                      [@ EXCEPT !.req = Some(q),
                                !.response = out.response,
                                !.calls = IF IsSome(out.fetch) THEN <<Get(out.fetch)>>
                                          ELSE <<>>,
                                !.pc = IF IsSome(out.fetch) THEN "fetching" ELSE "done"]]
    /\ UNCHANGED <<page, rev, env, pc, req, upstreamCalls, reply, result, response,
                   controller, timers>>

\* the fetch of one of the requests returns; crypto.randomUUID() never gives
\* the value it gave the other request
PairUpstreamReply ==
    /\ \E i \in Slots :
         /\ inflight[i].pc = "fetching"
         /\ \E rp \in PairReplies, created \in Clock :
            \E uuid \in Uuids \ { Get(inflight[j].ctx).uuid :
                                    j \in { k \in Slots : IsSome(inflight[k].ctx) } } :
              LET s == inflight[i]
                  res == callOpenRouter(CallStyle(rev), rp)
                  ctx == Ctx(uuid, created, RequestedModel(Get(s.req).model))
                  out == Finish(rev, Get(s.req).endpoint, res, ctx)
                  later == IF IsSome(out.plan) THEN Get(out.plan).later ELSE <<>>
              IN inflight' =
                   [inflight EXCEPT ![i] =
                      [@ EXCEPT !.reply = Some(rp),
                                !.ctx = Some(ctx),
                                !.result = Some(res),
                                !.response = Some(out.response),
                                !.controller = IF IsSome(out.plan)
                                               THEN RunOps(NewController, Get(out.plan).sync)
                                               ELSE @,
                                !.timers = later,
                                !.pc = IF later = <<>> THEN "done" ELSE "streaming"]]
    /\ UNCHANGED <<page, rev, env, pc, req, upstreamCalls, reply, result, response,
                   controller, timers>>

\* the soonest timer of one of the streams fires: its callback writes on the
\* controller its closure captured
PairTimerFire ==
    /\ \E i \in Slots :
         LET s == inflight[i]
         IN /\ s.pc = "streaming"
            /\ ~s.controller.closed
            /\ s.timers # <<>>
            /\ inflight' =
                 [inflight EXCEPT ![i] =
                    [@ EXCEPT !.controller = RunOps(s.controller,
                                                    s.timers[Soonest(s.timers)].ops),
                              !.timers = Without(s.timers, Soonest(s.timers)),
                              !.pc = IF Len(s.timers) = 1 THEN "done" ELSE "streaming"]]
    /\ UNCHANGED <<page, rev, env, pc, req, upstreamCalls, reply, result, response,
                   controller, timers>>

\* the caller of one of the streams drops its connection
PairClientCancel ==
    /\ \E i \in Slots :
         /\ inflight[i].pc = "streaming"
         /\ ~inflight[i].controller.closed
         /\ inflight' = [inflight EXCEPT ![i] =
                           [@ EXCEPT !.controller = [@ EXCEPT !.closed = TRUE],
                                     !.cancelled = TRUE]]
    /\ UNCHANGED <<page, rev, env, pc, req, upstreamCalls, reply, result, response,
                   controller, timers>>

\* a timer of the cancelled stream fires and controller.enqueue throws.  In
\* a setTimeout callback (part_003:153-156, part_002:269-285) nothing catches
\* it: the process ends, and with it every request still in flight.  Inside
\* an async start() it only errors the stream that was cancelled.
PairTimerFireCancelled ==
    /\ \E i \in Slots :
         LET s == inflight[i]
             c == RunOps(s.controller, s.timers[Soonest(s.timers)].ops)
         IN /\ s.pc = "streaming"
            /\ s.controller.closed
            /\ s.timers # <<>>
            /\ inflight' =
                 IF WritesFromTimerCallbacks(rev)
                 THEN [j \in Slots |->
                         [inflight[j] EXCEPT
                            !.controller = IF j = i THEN c ELSE @,
                            !.timers = <<>>,
                            !.pc = IF @ = "done" THEN "done" ELSE "crashed"]]
                 ELSE [inflight EXCEPT ![i] =
                         [@ EXCEPT !.controller = c, !.timers = <<>>, !.pc = "done"]]
    /\ UNCHANGED <<page, rev, env, pc, req, upstreamCalls, reply, result, response,
                   controller, timers>>

NextPair ==
    \/ PairRequest
    \/ PairUpstreamReply
    \/ PairTimerFire
    \/ PairClientCancel
    \/ PairTimerFireCancelled

SpecPair == Init /\ [][NextPair]_vars

\* every pending timer fired in turn on a stream nobody cancels
RECURSIVE RunTimers(_, _)
RunTimers(c, ts) ==
    IF ts = <<>> THEN c
    ELSE RunTimers(RunOps(c, ts[Soonest(ts)].ops), Without(ts, Soonest(ts)))

\* the request of slot s got every input its handler waits for
Settled(s) ==
    /\ IsSome(s.req)
    /\ IsSome(Handle(rev, Get(s.req), env).fetch) => IsSome(s.reply)

\* what the same request, upstream answer, uuid and clock give when the
\* request is the only one the process serves
AloneOutcome(s) ==
    LET first == Handle(rev, Get(s.req), env)
    IN IF ~IsSome(first.fetch)
       THEN [response |-> first.response, calls |-> <<>>, controller |-> NewController]
       ELSE LET out == Finish(rev, Get(s.req).endpoint,
                              callOpenRouter(CallStyle(rev), Get(s.reply)), Get(s.ctx))
            IN [response |-> Some(out.response),
                calls |-> <<Get(first.fetch)>>,
                controller |-> IF IsSome(out.plan)
                               THEN RunTimers(RunOps(NewController, Get(out.plan).sync),
                                              Get(out.plan).later)
                               ELSE NewController]

IsPrefix(a, b) == Len(a) <= Len(b) /\ SubSeq(b, 1, Len(a)) = a

\* a request whose own caller stayed connected and which has nothing left to
\* run
AtRest(s) == s.pc \in {"done", "crashed"} /\ IsSome(s.req) /\ ~s.cancelled

\* C16: whatever the interleaving of two concurrent requests, each one's
\* response (status, payload), its fetch and its chunk sequence with the ids
\* are those it gets when handled alone, and a stream never holds a chunk
\* that is not its own.
C16_RequestsAreIsolated ==
    \A i \in Slots :
        LET s == inflight[i]
        IN /\ Settled(s) =>
                IsPrefix(s.controller.queue, AloneOutcome(s).controller.queue)
           /\ AtRest(s) =>
                /\ Settled(s)
                /\ s.response = AloneOutcome(s).response
                /\ s.calls = AloneOutcome(s).calls
                /\ s.controller = AloneOutcome(s).controller

---------------------------------------------------------------------------
(* C21 *)

\* conversations of at most one turn: what a stream writes depends on the
\* revision and on the upstream's answer, not on the length of the
\* conversation
OneTurnBodies(e) ==
    { b \in BodiesOf(e) : e = "generate" \/ ~IsSome(b) \/ Len(Get(b)) <= 1 }

\* the model the caller names: openaiRequest.model in the chat body, the
\* segment before :streamGenerateContent or :generateContent in a Gemini
\* path; /generate has none
NamedModelsOf(e) == IF e = "generate" THEN {None} ELSE ModelValues

OneTurnRequest ==
    RequestFrom([e \in Endpoints |-> OneTurnBodies(e)],
                [e \in Endpoints |-> NamedModelsOf(e)], {TRUE})

NextLive == OneTurnRequest \/ ServeStatic \/ UpstreamReply \/ TimerFire

\* the event loop runs every timer that is due: a pending setTimeout
\* callback, or the continuation of an awaited delay, is eventually run
SpecLive == Init /\ [][NextLive]_vars /\ WF_vars(TimerFire)

\* C21: when timers fire and the caller stays connected, every streaming
\* response that has been started eventually closes its controller, whether
\* it writes synchronously, awaits a delay per character or closes from a
\* setTimeout callback.
C21_StreamsEventuallyClose == [](Streaming => <>controller.closed)

\* a stream that closes from its setTimeout callback has closed
C21_Witness ==
    /\ Streaming /\ rev = "part_002_b"
    /\ pc = "done" /\ controller.closed
    /\ Len(controller.queue) = 3

---------------------------------------------------------------------------
(* C22 *)

\* the caller has cancelled the stream: under SpecCancel a controller is
\* closed with callbacks still pending, or refused a write, only then
CancelledByCaller ==
    /\ Streaming
    /\ controller.closed
    /\ timers # <<>> \/ controller.fault

\* C22: once the caller has cancelled a stream whose delayed chunks are
\* still pending, the handler attempts no further enqueue or close on that
\* stream's controller.
C22_NoWriteAfterCancel == CancelledByCaller => ~controller.fault

---------------------------------------------------------------------------
(* C23 *)

\* the request reached the upstream through the multi-turn handler
HistoryForwarded == rev = "part_002_a" /\ Served /\ upstreamCalls # <<>>

\* the items the statement expects for a list of Gemini parts.  With
\* strict = FALSE every part that has a text field gives a text item and
\* every part that has an inlineData field an image_url item; with
\* strict = TRUE only a non-empty text and an inlineData with non-empty data
\* do.
RECURSIVE ExpectedItems(_, _)
ExpectedItems(parts, strict) ==
    IF parts = <<>> THEN <<>>
    ELSE LET p == Head(parts)
             text == IF IsSome(p.text) /\ (~strict \/ Get(p.text) # <<>>)
                     THEN << [type |-> "text", prefix |-> None,
                              text |-> Get(p.text), url |-> <<>>] >>
                     ELSE <<>>
             image == IF IsSome(p.inlineData)
                         /\ (~strict \/ Get(p.inlineData).data # <<>>)
                      THEN << [type |-> "image_url", prefix |-> None, text |-> <<>>,
                               url |-> DataPrefix \o Get(p.inlineData).mimeType
                                       \o Base64Marker \o Get(p.inlineData).data] >>
                      ELSE <<>>
         IN text \o image \o ExpectedItems(Tail(parts), strict)

\* the forwarded message list mirrors the conversation turn by turn
MirrorsConversation(strict) ==
    LET contents == Get(Get(req).body)
        sent == upstreamCalls[1].payload.messages
    IN /\ Len(sent) = Len(contents)
       /\ \A i \in 1..Len(contents) :
            /\ sent[i].role = (IF contents[i].role = "model" THEN "assistant" ELSE "user")
            /\ sent[i].content = ExpectedItems(Get(contents[i].parts), strict)

\* C23 as claimed: the multi-turn handler forwards one message per turn, in
\* order, with role assistant for model and user otherwise; in each message
\* every text part is a text item, every inlineData part an image_url item
\* with URL data:<mimeType>;base64,<data>, in the order of the parts, and
\* only the parts with neither are dropped.
C23_HistoryMirrored == HistoryForwarded => MirrorsConversation(FALSE)

\* C23 amended: as above, but a part gives a text item only when its text is
\* not empty and an image_url item only when its inlineData has non-empty
\* data; a part with an empty text or empty data is dropped like a part with
\* neither.
C23_HistoryMirroredNonEmpty == HistoryForwarded => MirrorsConversation(TRUE)

\* a two-turn conversation with a model turn, whose user turn holds a part
\* with neither text nor inlineData, was forwarded
C23_Witness ==
    /\ HistoryForwarded
    /\ Len(Get(Get(req).body)) = 2
    /\ Get(Get(req).body)[1].role = "user"
    /\ Get(Get(req).body)[2].role = "model"
    /\ \E k \in 1..Len(Get(Get(Get(req).body)[1].parts)) :
          Get(Get(Get(req).body)[1].parts)[k] = BarePart
    /\ Len(upstreamCalls[1].payload.messages[1].content) = 4

---------------------------------------------------------------------------
(* C24 *)

\* the same request with another model name
WithModel(q, md) == [q EXCEPT !.model = md]

\* C24: the upstream payload never depends on the model the caller named,
\* in the chat body or in a Gemini path: the request sent for any other
\* model name is the same fetch, its model is always
\* google/gemini-2.5-flash-image-preview:free, and the name the caller gave
\* shows only in the model field of the response chunks.
C24_PayloadIgnoresRequestedModel ==
    /\ \A i \in 1..Len(upstreamCalls) :
          upstreamCalls[i].payload.model = "google/gemini-2.5-flash-image-preview:free"
    /\ Served =>
          \A md \in ModelValues :
             LET other == Handle(rev, WithModel(Get(req), md), env)
             IN /\ IsSome(other.fetch) = (upstreamCalls # <<>>)
                /\ upstreamCalls # <<>> => Get(other.fetch) = upstreamCalls[1]
    /\ (Streaming /\ IsSome(Get(req).model)) =>
          \A i \in 1..Len(controller.queue) :
             LET m == controller.queue[i].meta
             IN (IsSome(m) /\ IsSome(Get(m).model)) =>
                    Get(Get(m).model) = Get(Get(req).model)

\* a chat request and a Gemini request that name a model of their own have
\* reached the upstream, the chat stream echoing the name
C24_Witness ==
    /\ Served /\ upstreamCalls # <<>>
    /\ Get(req).model = Some("my-model")
    /\ \/ Endpoint = "gemini_stream"
       \/ /\ Endpoint = "chat" /\ Streaming /\ controller.queue # <<>>
          /\ Get(controller.queue[1].meta).model = Some("my-model")

---------------------------------------------------------------------------
(* C25 *)

\* the parts of the user message a single-turn handler selected (find: the
\* first turn with role user), when it is a list of several parts
SelectedParts ==
    LET turns == Get(Get(req).body)
        first == CHOOSE i \in UserTurns(turns) : \A j \in UserTurns(turns) : i <= j
    IN IF Endpoint = "chat"
       THEN (IF turns[first].content.kind = "array" THEN turns[first].content.parts
             ELSE <<>>)
       ELSE Get(turns[first].parts)

\* a single-turn handler forwarded a user message of several parts
SeveralPartsForwarded ==
    /\ Served /\ Endpoint # "generate" /\ rev # "part_002_a"
    /\ upstreamCalls # <<>>
    /\ Len(SelectedParts) >= 2

CarriesImage(p) ==
    IF Endpoint = "chat"
    THEN p.type = "image_url" /\ IsSome(p.url) /\ Get(p.url) # <<>>
    ELSE IsSome(p.inlineData) /\ Get(p.inlineData).data # <<>>

ImageOf(p) ==
    IF Endpoint = "chat" THEN Get(p.url)
    ELSE DataPrefix \o Get(p.inlineData).mimeType \o Base64Marker
         \o Get(p.inlineData).data

\* the image parts that carry a URL or data, in request order
ExpectedImages ==
    LET ps == SelectSeq(SelectedParts, CarriesImage)
    IN [i \in 1..Len(ps) |-> ImageOf(ps[i])]

\* a text part; with nonEmpty, a Gemini part counts only when its text is
\* not empty
IsText(p, nonEmpty) ==
    IF Endpoint = "chat" THEN p.type = "text"
    ELSE IsSome(p.text) /\ (nonEmpty => Get(p.text) # <<>>)

\* the text of the last text part, empty when there is none
LastText(nonEmpty) ==
    LET idx == { i \in 1..Len(SelectedParts) : IsText(SelectedParts[i], nonEmpty) }
    IN IF idx = {} THEN <<>>
       ELSE LET last == SelectedParts[CHOOSE i \in idx : \A j \in idx : j <= i]
            IN IF Endpoint = "chat" THEN last.text ELSE Get(last.text)

\* C25 as claimed: when the selected user message holds several parts, the
\* images forwarded are exactly its image parts that carry a URL or data, in
\* request order, and the prompt forwarded is the text of its last text part.
C25_LastTextAndAllImages ==
    SeveralPartsForwarded =>
        /\ ForwardedImages(upstreamCalls[1]) = ExpectedImages
        /\ ForwardedPrompt(upstreamCalls[1]) = LastText(FALSE)

\* C25 amended: the images are forwarded as claimed; the prompt is the text
\* of the last text part in the chat handlers, and in the Gemini handlers the
\* text of the last part whose text is not empty (a later part with an empty
\* text does not overwrite it).
C25_LastNonEmptyTextAndAllImages ==
    SeveralPartsForwarded =>
        /\ ForwardedImages(upstreamCalls[1]) = ExpectedImages
        /\ ForwardedPrompt(upstreamCalls[1]) = LastText(TRUE)

\* a message with two text parts and two images was forwarded: the second
\* text is the prompt and both images follow in order
C25_Witness ==
    /\ SeveralPartsForwarded
    /\ Len(ExpectedImages) = 2
    /\ Cardinality({ i \in 1..Len(SelectedParts) : IsText(SelectedParts[i], TRUE) }) = 2
    /\ ForwardedPrompt(upstreamCalls[1]) = PromptB
    /\ ForwardedImages(upstreamCalls[1]) = ExpectedImages

---------------------------------------------------------------------------
(* C26 *)

\* an ok reply with no images[0] URL whose content is c
ReplyWithoutImage(c) ==
    /\ Replied /\ Get(reply).ok /\ ~ReplyHasImages
    /\ ContentOf(Get(reply)) = c

\* callOpenRouter threw and the request ended with an error response: no
\* success document and no chunk
FailedWithoutOutput ==
    /\ Get(result).thrown
    /\ Get(response).kind = "error"
    /\ controller.queue = <<>>

\* C26 as claimed: a reply with neither an image URL nor non-empty text (a
\* missing message, a null or absent content, an empty-string content with
\* no images entry) makes callOpenRouter fail and the request end with an
\* error response, no success document and no chunk.
C26_NoUsableContentFails ==
    (ReplyWithoutImage(None) \/ ReplyWithoutImage(Some(<<>>))) => FailedWithoutOutput

\* C26 amended: a reply with no image URL and no string content (a missing
\* message, a null or absent content) makes callOpenRouter fail and the
\* request end with an error response, no success document and no chunk.
\* An empty-string content with no images entry fails in the same way in the
\* revisions that return images only; in the revision that returns text
\* (part_002 geminiHandler) it is a text result with the empty text, and the
\* request succeeds.
C26_NoContentFails ==
    /\ ReplyWithoutImage(None) => FailedWithoutOutput
    /\ ReplyWithoutImage(Some(<<>>)) =>
          IF CallStyle(rev) = "D"
          THEN Get(result) = Returned("text", <<>>) /\ Succeeded
          ELSE FailedWithoutOutput

\* the text-returning revision has answered a reply whose message holds no
\* content and no image with an error
C26_Witness ==
    /\ ReplyWithoutImage(None) /\ IsSome(Get(reply).message)
    /\ CallStyle(rev) = "D"
    /\ pc = "done" /\ Get(response).kind = "error"

---------------------------------------------------------------------------
(* C27 *)

\* requests whose body may fail to parse as JSON; the chat route with whole
\* conversations, the other routes with one turn
ParseBodies(e) == IF e = "chat" THEN BodiesOf(e) ELSE OneTurnBodies(e)

AnyBodyRequest ==
    RequestFrom([e \in Endpoints |-> ParseBodies(e)], [e \in Endpoints |-> ModelsOf(e)],
                BOOLEAN)

NextParse == AnyBodyRequest \/ ServeStatic \/ UpstreamReply \/ TimerFire

SpecParse == Init /\ [][NextParse]_vars

\* the first of the chat handler's checks the request q does not pass, in
\* the order body, credentials, user message, prompt; "none" when it passes
\* them all
FirstFailedCheck(q) ==
    IF ~q.parsed THEN "body"
    ELSE IF ~(IsSome(q.auth) /\ StartsWith(Get(q.auth), BearerPrefix))
    THEN "credentials"
    ELSE IF ~IsSome(q.body) \/ FindUser(Get(q.body)) = 0
    THEN "user message"
    ELSE LET content == Get(q.body)[FindUser(Get(q.body))].content
         IN IF ContentFalsy(content) THEN "user message"
            ELSE IF ChatPrompt(content) = <<>> THEN "prompt"
            ELSE "none"

ChatRequest == Served /\ Endpoint = "chat"

\* C27: the chat handler validates in the order body parse, credentials,
\* user message, non-empty prompt, and answers with the error of the first
\* check that fails: 500 for a body that is not JSON whatever the
\* credentials, 401 for missing credentials whatever the prompt, 400 for a
\* missing user message or prompt; the upstream is reached exactly when
\* every check passes.
C27_ValidationOrder ==
    ChatRequest =>
        LET f == FirstFailedCheck(Get(req))
        IN /\ (upstreamCalls # <<>>) <=> (f = "none")
           /\ f = "body" => response = Some(ErrorResponse("chat", MsgNotJson, 500))
           /\ f = "credentials" =>
                 response = Some(ErrorResponse("chat", MsgAuthInvalid, 401))
           /\ f = "user message" =>
                 response = Some(ErrorResponse("chat", MsgNoUserMessage, 400))
           /\ f = "prompt" =>
                 response = Some(ErrorResponse("chat", MsgPromptMissing, 400))

\* a request with neither credentials nor a prompt has been answered with 401
C27_Witness ==
    /\ ChatRequest /\ Get(req).parsed
    /\ ~IsSome(Get(req).auth)
    /\ IsSome(Get(req).body) /\ FindUser(Get(Get(req).body)) # 0
    /\ ~ContentFalsy(Get(Get(req).body)[FindUser(Get(Get(req).body))].content)
    /\ ChatPrompt(Get(Get(req).body)[FindUser(Get(Get(req).body))].content) = <<>>
    /\ pc = "done" /\ Get(response).status = 401

\* a body that is not JSON, sent without credentials, has been answered
\* with the 500 of the catch block
C27_UnparsedWitness ==
    /\ ChatRequest /\ ~Get(req).parsed /\ ~IsSome(Get(req).auth)
    /\ pc = "done" /\ Get(response).status = 500

---------------------------------------------------------------------------
(* C28 *)

GenerateRequest == Served /\ Endpoint = "generate"

\* the body's apikey when present, the environment key otherwise; the empty
\* string when there is neither
KeyInUse ==
    IF IsSome(Get(req).body.apikey) THEN Get(Get(req).body.apikey)
    ELSE IF IsSome(env) THEN Get(env) ELSE <<>>

PromptPresent == IsSome(Get(req).body.prompt) /\ Get(Get(req).body.prompt) # <<>>

ImagesPresent == IsSome(Get(req).body.images) /\ Len(Get(Get(req).body.images)) >= 1

\* the upstream is reached exactly with a key, a prompt and an image, under
\* the key in use; a success is one document {imageUrl} with the string
\* callOpenRouter returned
GenerateUpstreamAndSuccess ==
    /\ (upstreamCalls # <<>>) <=> (KeyInUse # <<>> /\ PromptPresent /\ ImagesPresent)
    /\ upstreamCalls # <<>> =>
          upstreamCalls[1].authorization = BearerPrefix \o KeyInUse
    /\ (Replied /\ ~Get(result).thrown) =>
          /\ Some(Get(result).content) \in
                { ContentOf(Get(reply)), FirstImageOf(Get(reply)) }
          /\ Get(response) =
                JsonResponse("generate",
                    <<Piece("json", "imageUrl", <<>>, <<>>, Some(Get(result).content))>>)

BadRequest400 == response = Some(ErrorResponse("generate", MsgPromptImagesRequired, 400))

---------------------------------------------------------------------------
(* C29 *)

ServerVars == <<rev, env, pc, req, upstreamCalls, reply, result, response,
                controller, timers, inflight>>

\* a click on the generate button; a disabled button dispatches no click.
\* The three checks, then setLoading(true) and the call of fileToBase64
PageClick ==
    /\ ~page.disabled /\ Len(page.runs) < MaxPending
    /\ \E k \in KeyInputs, n \in 0..MaxFiles, p \in PromptInputs :
         page' = IF Trim(k) = <<>> THEN [page EXCEPT !.alert = "key"]
                 ELSE IF n = 0 THEN [page EXCEPT !.alert = "image"]
                 ELSE IF Trim(p) = <<>> THEN [page EXCEPT !.alert = "prompt"]
                 ELSE [setLoading(page, TRUE) EXCEPT
                          !.runs = Append(@, Run("reading", k, p))]
    /\ UNCHANGED ServerVars

\* fileToBase64 settles: the reader's onload, after which the fetch is sent
\* and the server's handler runs to its first return or to its own fetch;
\* or the reader's onerror, which lands in the catch
PageFileRead ==
    \E i \in 1..Len(page.runs) :
       /\ page.runs[i].at = "reading"
       /\ \/ LET q == PageRequest(page.runs[i].prompt, DataUrl(Png, Zm9v))
                 out == IF "chat" \in Routes(rev) THEN Handle(rev, q, env)
                        ELSE Reject(StaticMiss)
             IN /\ page' = [page EXCEPT !.runs[i].at = "fetching"]
                /\ req' = Some(q)
                /\ response' = out.response
                /\ upstreamCalls' = IF IsSome(out.fetch) THEN <<Get(out.fetch)>> ELSE <<>>
                /\ pc' = IF IsSome(out.fetch) THEN "fetching" ELSE "done"
                /\ reply' = None
                /\ result' = None
                /\ controller' = NewController
                /\ timers' = <<>>
                /\ UNCHANGED <<rev, env, inflight>>
          \/ /\ page' = Settle(page, i, Shown("error", MsgFileRead, "page"))
             /\ UNCHANGED ServerVars

\* the page's fetch settles: with the server's Response, or with a TypeError
\* when the connection fails
PageFetchSettles ==
    /\ \E i \in 1..Len(page.runs) :
         /\ page.runs[i].at = "fetching"
         /\ \/ /\ IsSome(response)
               /\ page' = [page EXCEPT !.runs[i].at = "parsing"]
            \/ page' = Settle(page, i, Shown("error", MsgFetchFailed, "page"))
    /\ UNCHANGED ServerVars

\* response.json() settles once the body has ended, and the handler runs to
\* its end
PageBodyRead ==
    /\ IsSome(response) /\ pc = "done"
    /\ \E i \in 1..Len(page.runs) :
         /\ page.runs[i].at = "parsing"
         /\ page' = Settle(page, i, PageParse(PageDocument(Get(response))))
    /\ UNCHANGED ServerVars

NextPage == PageClick \/ PageFileRead \/ PageFetchSettles \/ PageBodyRead

\* the file reader, the fetch and the body each settle in the end
SpecPage ==
    /\ Init /\ [][NextPage]_vars
    /\ WF_vars(PageFileRead) /\ WF_vars(PageFetchSettles) /\ WF_vars(PageBodyRead)

\* the server has the chat route and a request of the page has reached it
PageRequestServed == "chat" \in Routes(rev) /\ IsSome(req)

\* C29: a request the page sends after its own checks passed is accepted by
\* the chat handler: the key the user entered reaches the server as the
\* request's credential, the request is not rejected with 401, and the
\* page's parser turns the server's reply into a displayed image.
C29_PageRequestAccepted ==
    PageRequestServed =>
        /\ \A i \in 1..Len(page.runs) :
              page.runs[i].at \in {"fetching", "parsing"} =>
                 /\ ChatApiKey(Get(req).auth) = Some(Trim(page.runs[i].key))
                 /\ IsSome(response) => Get(response).status # 401
        /\ page.shown.from = "server" => page.shown.kind = "image"

---------------------------------------------------------------------------
(* C30 *)

\* documents in the format the page's parser reads (choices[0].message
\* .content): a data URL, a markdown image link, plain text, no content
CompletionDocuments ==
    { [ok |-> TRUE, content |-> c, error |-> None] :
        c \in { Some(DataUrl(Png, Zm9v)),
                Some(<<"!","[","]","(">> \o HttpsUrl \o <<")">>),
                Some(ReplyText), None } }

\* the page is served from an origin whose /v1/chat/completions answers
\* with such a document: the fetch and the body read settle with it
PageForeignReply ==
    /\ \E i \in 1..Len(page.runs), doc \in CompletionDocuments :
         /\ page.runs[i].at = "fetching"
         /\ page' = Settle(page, i, PageParse(doc))
    /\ UNCHANGED ServerVars

NextPageAny == NextPage \/ PageForeignReply

SpecPageAny ==
    /\ Init /\ [][NextPageAny]_vars
    /\ WF_vars(PageFileRead) /\ WF_vars(PageFetchSettles) /\ WF_vars(PageBodyRead)

\* C30: at most one generate request of the page is in flight at any time,
\* the button is disabled (and the spinner shown) exactly while one is, and
\* after every click that passes the checks the loading state is eventually
\* reset, whether the request succeeds, returns an error document or throws.
C30_LoadingStateReset ==
    /\ [](/\ Len(page.runs) <= 1
          /\ page.disabled <=> (page.runs # <<>>)
          /\ page.spinner <=> page.disabled)
    /\ [](page.disabled => <>(~page.disabled /\ ~page.spinner))

\* a request that succeeded has been displayed and the button is enabled
\* again
C30_Witness ==
    /\ page.shown.kind = "image" /\ page.shown.from = "server"
    /\ page.runs = <<>> /\ ~page.disabled /\ ~page.spinner
    /\ page.label = "Generate"

====
